---- MODULE Spec2Model ----
(***************************************************************************)
(* A state-machine model of contracts/FizzDex.sol (pool ledger, atomic     *)
(* swap state machine, Fizz Caps rewards) together with the two ERC20      *)
(* tokens of the repository: the plain FizzToken and FeeOnTransferToken.   *)
(*                                                                         *)
(* Every external function of the contract is one action.  A call either   *)
(* commits the state computed by the handler or reverts, in which case the *)
(* EVM restores the state the call started from.  The handlers are written *)
(* as operators on a "world" record so that the order of the require       *)
(* statements, the token pulls and the storage writes is that of the       *)
(* Solidity source.                                                        *)
(*                                                                         *)
(* Token amounts are small integers; the reward sizes keep the ratio       *)
(* 10 : 15 : 50 of the contract.  The fee token is deployed with the       *)
(* largest fee its constructor accepts, so that the integer fee is zero    *)
(* for amounts below 10 and positive from 10 on.  The reward token is one  *)
(* of the traded tokens (any token can be escrowed or pooled).             *)
(*                                                                         *)
(* Spec explores the whole contract.  SpecPool explores the pool functions *)
(* alone over a range of amounts, SpecQuote the output formula of swap on  *)
(* large reserves.  SpecRelayer explores the relayer process               *)
(* (relayer/src/index.ts with its worker.ts): the mapping store in memory  *)
(* and on disk, the API requests that write it, the completion handler and *)
(* the worker passes, one step per stretch of code between two awaits.     *)
(***************************************************************************)
EXTENDS Integers, Sequences, FiniteSets, TLC

\* ---------------------------------------------------------------- bounds
\* number of successful state-changing calls explored
MaxCalls == 3
\* number of atomic swap records explored
MaxSwaps == 1
\* block.timestamp of the first explored block
Genesis == 100
\* tokens the liquidity provider holds initially
InitialBalance == 20

\* ------------------------------------------------------------- universe
ZERO == "0x0"
DEX == "dex"
FeeReceiver == "feeReceiver"
Owner == "alice"
Users == {"alice", "bob"}
Holders == Users \cup {DEX, FeeReceiver}

FIZZ == "FIZZ"
FEE == "FEE"
Tokens == {FEE, FIZZ}
\* one more plain ERC20, traded only where several pools are explored
TokenC == "TKC"
rewardToken == FIZZ

\* An address as its holder writes it: the significant hex digits in
\* checksum case, as character codes ("a9" for FEE, "AB" for FIZZ, "00" for
\* the zero address).
Text(t) ==
  IF t = FEE THEN <<97, 57>>
  ELSE IF t = FIZZ THEN <<65, 66>>
  ELSE IF t = TokenC THEN <<67, 52>>
  ELSE <<48, 48>>

\* value of the hex digit with character code c
Nibble(c) ==
  IF c >= 97 THEN c - 87 ELSE IF c >= 65 THEN c - 55 ELSE c - 48

\* numeric value of an address, used only for the canonical token order
AddrOf(t) == 16 * Nibble(Text(t)[1]) + Nibble(Text(t)[2])

\* inputs the callers choose from
Amounts == {0, 5, 12}
ShareAmounts == {0, 3, 10}
MinOuts == {0, 3}
Secrets == {1, 2}
Numbers == {0, 3, 5}
TimeOffsets == {0, 1, 2, 60}
Times == {Genesis + d : d \in TimeOffsets}
Timelocks == {Genesis, Genesis + 1}

\* keccak256 over the explored preimages (a fixed non-identity map)
keccak256(s) == (s * 7 + 3) % 11
Hashes == {keccak256(1)}
\* (tokenA, tokenB) arguments of the pool calls
TokenPairs == {<<FEE, FIZZ>>, <<FIZZ, FEE>>}
\* amountB of the explored addLiquidity calls
DepositB == 10
\* reward tokens the owner sends to the contract right after deployment
RewardFunding == 10
\* token holdings at deployment: alice holds both tokens, bob none
InitialHolding(t, h) ==
  IF h = "alice" THEN InitialBalance
  ELSE IF h = DEX /\ t = rewardToken THEN RewardFunding
  ELSE 0

\* program constants (FizzDex.sol:55-58, in token base units)
FIZZ_REWARD == 10
BUZZ_REWARD == 15
FIZZBUZZ_REWARD == 50
PLAY_COOLDOWN == 60
\* the largest _feeBasisPoints the FeeOnTransferToken constructor accepts
LargestFeeBasisPoints == 1000
\* _feeBasisPoints of the fee token the test suite deploys (1%)
OnePercentFeeBasisPoints == 100

\* feeBasisPoints is the storage variable of FeeOnTransferToken, written by
\* its constructor only
VARIABLES balances, pools, atomicSwaps, players, now, calls, last, quote,
          feeBasisPoints

\* reentrancy is the _status of ReentrancyGuard and, while a call of the
\* contract is inside its token transfers, that call: its name, caller and
\* swap id, the transfers it has still to make and the world it started from
VARIABLES reentrancy

NotEntered ==
  [status |-> "NOT_ENTERED", op |-> "", sender |-> "", id |-> <<>>,
   transfers |-> <<>>, snapshot |-> <<>>]

\* The relayer process (relayer/src/index.ts and its worker.ts):
\*   file             keys of relayer-mappings.json, in file order
\*   relayerMappings  keys of the API's in-memory object, in insertion order
\*   listening        POST /start-listen has registered the event handlers
\*   allowAuto        RELAYER_ALLOW_AUTOCOMPLETE === 'true'
\*   handler          per swap id, the await the AtomicSwapCompleted
\*                    callback is suspended at
\*   passes           the setInterval callbacks of the worker in progress,
\*                    each with its own snapshot of the file
\*   evmCompleted     swaps completed on the originating ledger
\*   solanaCompleted  counterpart locks whose completion was confirmed
\*   recorded, purged history of the store: ids written by
\*                    /solana/initiate-htlc, ids removed by DELETE /mappings
\*   encrypted        relayer-mappings.json holds iv:ciphertext, not JSON
\*   mappingsKey      RELAYER_MAPPINGS_KEY is set
\*   console          the lines the last step wrote to the log
\*   res              the HTTP response the last step sent, with the route,
\*                    the credential and the swap id of its request
\*   rateMap, dateNow the per-IP counters of the rate limiter and Date.now()
\*   admitted         per IP, the times of the requests the rate limiter
\*                    let through within the last minute
\*   routing          the call of RouteAggregator.findBestRoute in progress:
\*                    its arguments, the adapters still to ask, the
\*                    connections asked so far, results and the value returned
VARIABLES file, relayerMappings, listening, allowAuto, handler, passes,
          evmCompleted, solanaCompleted, recorded, purged,
          encrypted, mappingsKey, console, res, rateMap, dateNow, admitted,
          routing

relayerVars == <<file, relayerMappings, listening, allowAuto, handler, passes,
                 evmCompleted, solanaCompleted, recorded, purged,
                 encrypted, mappingsKey, console, res, rateMap, dateNow,
                 admitted, routing>>

\* what no call of the contract changes: the fee rate of the token and the
\* state kept outside the ledger
frame == <<quote, feeBasisPoints, reentrancy, relayerVars>>

contractVars == <<balances, pools, atomicSwaps, players, now, calls, last>>

vars == <<balances, pools, atomicSwaps, players, now, calls, last, quote,
          feeBasisPoints, reentrancy, relayerVars>>

\* swap ids of the originating ledger the relayer is asked about
SwapIds == {"0xa1", "0xb2"}
\* callers of the relayer API, by req.ip
Ips == {"ip1", "ip2"}

\* no response was sent
NoResponse == [route |-> "", key |-> "", status |-> 0, id |-> ""]

\* findBestRoute has not been called
NoRouting ==
  [pc |-> "none", inputChain |-> "", adapters |-> <<>>, pending |-> <<>>,
   asked |-> <<>>, seen |-> <<>>, results |-> <<>>, best |-> <<>>]

\* the relayer right after start-up with no mappings file: loadMappings()
\* leaves the object empty, no listener is registered, no poll has fired
RelayerStartedWith(auto, key, enc) ==
  /\ file = <<>>
  /\ relayerMappings = <<>>
  /\ listening = FALSE
  /\ allowAuto = auto
  /\ handler = [id \in SwapIds |-> "idle"]
  /\ passes = <<>>
  /\ evmCompleted = {}
  /\ solanaCompleted = {}
  /\ recorded = {}
  /\ purged = {}
  /\ encrypted = enc
  /\ mappingsKey = key
  /\ console = <<>>
  /\ res = NoResponse
  /\ rateMap = [ip \in {} |-> 0]
  /\ dateNow = 0
  /\ admitted = [ip \in Ips |-> <<>>]
  /\ routing = NoRouting

\* the same without RELAYER_MAPPINGS_KEY
RelayerStarted(auto) == RelayerStartedWith(auto, FALSE, FALSE)

\* ------------------------------------------------------------ ERC20 tokens
\* ERC20._update of the plain token: move value, revert on short balance
ERC20_update(bal, token, from, to, value) ==
  IF bal[token][from] < value
  THEN [ok |-> FALSE, bal |-> bal]
  ELSE [ok |-> TRUE,
        bal |-> [bal EXCEPT ![token] =
                   [h \in Holders |->
                      IF from = to THEN bal[token][h]
                      ELSE IF h = from THEN bal[token][h] - value
                      ELSE IF h = to THEN bal[token][h] + value
                      ELSE bal[token][h]]]]

\* FeeOnTransferToken._update: the recipient gets value - fee
FeeOnTransferToken_update(bal, token, from, to, value) ==
  IF from = ZERO \/ to = ZERO \/ feeBasisPoints = 0
     \/ from = FeeReceiver \/ to = FeeReceiver
  THEN ERC20_update(bal, token, from, to, value)
  ELSE LET fee == (value * feeBasisPoints) \div 10000
           sendAmount == value - fee
           r1 == ERC20_update(bal, token, from, to, sendAmount)
           r2 == IF fee > 0
                 THEN ERC20_update(r1.bal, token, from, FeeReceiver, fee)
                 ELSE r1
       IN IF ~r1.ok THEN [ok |-> FALSE, bal |-> bal]
          ELSE IF ~r2.ok THEN [ok |-> FALSE, bal |-> bal]
          ELSE r2

\* IERC20(token).transfer / transferFrom as SafeERC20 sees them.  Callers
\* have approved the contract, so only the balance can make a pull fail.
safeTransfer(bal, token, from, to, value) ==
  IF token = FEE
  THEN FeeOnTransferToken_update(bal, token, from, to, value)
  ELSE ERC20_update(bal, token, from, to, value)

safeTransferFrom(bal, token, from, to, value) ==
  safeTransfer(bal, token, from, to, value)

\* ---------------------------------------------------------------- storage
NoId == <<>>

EmptyPool ==
  [tokenA |-> ZERO, tokenB |-> ZERO, reserveA |-> 0, reserveB |-> 0,
   totalShares |-> 0, shares |-> [u \in Users |-> 0]]

EmptySwap ==
  [initiator |-> ZERO, participant |-> ZERO, token |-> ZERO, amount |-> 0,
   secretHash |-> 0, timelock |-> 0, completed |-> FALSE, refunded |-> FALSE]

EmptyPlayer ==
  [score |-> 0, fizzCount |-> 0, buzzCount |-> 0, fizzBuzzCount |-> 0,
   lastPlayTime |-> 0, rewardBalance |-> 0]

\* getPoolId: hash of the two tokens in canonical order
getPoolId(tokenA, tokenB) ==
  IF AddrOf(tokenA) < AddrOf(tokenB) THEN <<tokenA, tokenB>>
  ELSE <<tokenB, tokenA>>

PoolIds == {getPoolId(a, b) : a \in Tokens, b \in Tokens}

\* atomicSwaps[swapId] of the Solidity mapping: absent keys read as zero
SwapAt(swaps, swapId) ==
  IF swapId \in DOMAIN swaps THEN swaps[swapId] ELSE EmptySwap

\* the contract storage and the token ledgers a call works on
World ==
  [bal |-> balances, pools |-> pools, swaps |-> atomicSwaps,
   players |-> players]

\* outcome of a call: revert restores the world the call started from
Revert(w, e) ==
  [ok |-> FALSE, err |-> e, w |-> w, id |-> NoId, ret |-> 0, ret2 |-> 0]

Return(w, id, ret, ret2) ==
  [ok |-> TRUE, err |-> "", w |-> w, id |-> id, ret |-> ret, ret2 |-> ret2]

\* ---------------------------------------------------------------- utility
RECURSIVE sqrtLoop(_, _, _)
sqrtLoop(y, z, x) ==
  IF x < z THEN sqrtLoop(y, x, (y \div x + x) \div 2) ELSE z

\* variant: the first guess is returned without iterating
sqrt_InitialGuess(y) ==
  IF y > 3 THEN y \div 2 + 1
  ELSE IF y # 0 THEN 1
  ELSE 0

sqrt(y) ==
  IF y > 3 THEN sqrtLoop(y, y, y \div 2 + 1)
  ELSE IF y # 0 THEN 1
  ELSE 0

\* variant: the first argument is returned
min_ReturnsLarger(a, b) == IF a < b THEN b ELSE a

min_ReturnsFirst(a, b) == a

min(a, b) == IF a < b THEN a ELSE b

\* uint256 products of the quote exceed the 32-bit integers of the model
\* checker, so floor(a * b / c) is computed bit by bit of b on
\* <<quotient, remainder>> pairs: a * b = q * c + r with 0 <= r < c.  No
\* intermediate value exceeds 2 * c.
RECURSIVE mulDivQR(_, _, _)
mulDivQR(a, b, c) ==
  IF b = 0 THEN <<0, 0>>
  ELSE LET h == mulDivQR(a, b \div 2, c)
           d1 == 2 * h[2]
           d2 == (d1 % c) + (IF b % 2 = 1 THEN a % c ELSE 0)
           q == 2 * h[1] + (d1 \div c)
                  + (IF b % 2 = 1 THEN a \div c ELSE 0) + (d2 \div c)
       IN <<q, d2 % c>>

mulDiv(a, b, c) == mulDivQR(a, b, c)[1]

\* ------------------------------------------------------------ pool ledger
\* variant: spot price, the input is left out of the denominator
getAmountOut_SpotPrice(actualAmountIn, reserveIn, reserveOut) ==
  LET amountInWithFee == actualAmountIn * 997
  IN (amountInWithFee * reserveOut) \div (reserveIn * 1000)

\* variant: no fee is taken from the input
getAmountOut_NoFee(actualAmountIn, reserveIn, reserveOut) ==
  LET amountInWithFee == actualAmountIn * 1000
  IN mulDiv(amountInWithFee, reserveOut, reserveIn * 1000 + amountInWithFee)

\* FizzDex.swap lines 202-203: constant product output with the 0.3% fee
getAmountOut(actualAmountIn, reserveIn, reserveOut) ==
  LET amountInWithFee == actualAmountIn * 997
  IN mulDiv(amountInWithFee, reserveOut, reserveIn * 1000 + amountInWithFee)

\* variant: the amounts are not reordered with the tokens
addLiquidity_AmountsNotReordered(w, sender, tokenA, tokenB, amountA, amountB) ==
  IF ~(amountA > 0 /\ amountB > 0) THEN Revert(w, "Invalid amounts")
  ELSE IF tokenA = tokenB THEN Revert(w, "Identical tokens")
  ELSE
    LET token0 == IF AddrOf(tokenA) < AddrOf(tokenB) THEN tokenA ELSE tokenB
        token1 == IF AddrOf(tokenA) < AddrOf(tokenB) THEN tokenB ELSE tokenA
        amount0 == amountA
        amount1 == amountB
        poolId == getPoolId(tokenA, tokenB)
        pool0 == w.pools[poolId]
        pool == IF pool0.tokenA = ZERO
                THEN [pool0 EXCEPT !.tokenA = token0, !.tokenB = token1]
                ELSE pool0
        balance0Before == w.bal[token0][DEX]
        balance1Before == w.bal[token1][DEX]
        t0 == safeTransferFrom(w.bal, token0, sender, DEX, amount0)
        t1 == safeTransferFrom(t0.bal, token1, sender, DEX, amount1)
        added0 == t1.bal[token0][DEX] - balance0Before
        added1 == t1.bal[token1][DEX] - balance1Before
        shares == IF pool.totalShares = 0
                  THEN sqrt(added0 * added1)
                  ELSE min((added0 * pool.totalShares) \div pool.reserveA,
                           (added1 * pool.totalShares) \div pool.reserveB)
    IN IF ~t0.ok \/ ~t1.ok THEN Revert(w, "ERC20InsufficientBalance")
       ELSE IF ~(added0 > 0 /\ added1 > 0) THEN Revert(w, "No tokens received")
       ELSE IF pool.totalShares # 0 /\ (pool.reserveA = 0 \/ pool.reserveB = 0)
            THEN Revert(w, "Panic: division by zero")
       ELSE IF ~(shares > 0) THEN Revert(w, "Insufficient liquidity minted")
       ELSE Return(
              [w EXCEPT !.bal = t1.bal,
                        !.pools[poolId] =
                          [pool EXCEPT !.reserveA = @ + added0,
                                       !.reserveB = @ + added1,
                                       !.totalShares = @ + shares,
                                       !.shares[sender] = @ + shares]],
              poolId, shares, 0)

\* variant: the reserves grow by the nominal amounts
addLiquidity_ReservesNominal(w, sender, tokenA, tokenB, amountA, amountB) ==
  IF ~(amountA > 0 /\ amountB > 0) THEN Revert(w, "Invalid amounts")
  ELSE IF tokenA = tokenB THEN Revert(w, "Identical tokens")
  ELSE
    LET token0 == IF AddrOf(tokenA) < AddrOf(tokenB) THEN tokenA ELSE tokenB
        token1 == IF AddrOf(tokenA) < AddrOf(tokenB) THEN tokenB ELSE tokenA
        amount0 == IF tokenA = token0 THEN amountA ELSE amountB
        amount1 == IF tokenA = token0 THEN amountB ELSE amountA
        poolId == getPoolId(tokenA, tokenB)
        pool0 == w.pools[poolId]
        pool == IF pool0.tokenA = ZERO
                THEN [pool0 EXCEPT !.tokenA = token0, !.tokenB = token1]
                ELSE pool0
        balance0Before == w.bal[token0][DEX]
        balance1Before == w.bal[token1][DEX]
        t0 == safeTransferFrom(w.bal, token0, sender, DEX, amount0)
        t1 == safeTransferFrom(t0.bal, token1, sender, DEX, amount1)
        added0 == t1.bal[token0][DEX] - balance0Before
        added1 == t1.bal[token1][DEX] - balance1Before
        shares == IF pool.totalShares = 0
                  THEN sqrt(added0 * added1)
                  ELSE min((added0 * pool.totalShares) \div pool.reserveA,
                           (added1 * pool.totalShares) \div pool.reserveB)
    IN IF ~t0.ok \/ ~t1.ok THEN Revert(w, "ERC20InsufficientBalance")
       ELSE IF ~(added0 > 0 /\ added1 > 0) THEN Revert(w, "No tokens received")
       ELSE IF pool.totalShares # 0 /\ (pool.reserveA = 0 \/ pool.reserveB = 0)
            THEN Revert(w, "Panic: division by zero")
       ELSE IF ~(shares > 0) THEN Revert(w, "Insufficient liquidity minted")
       ELSE Return(
              [w EXCEPT !.bal = t1.bal,
                        !.pools[poolId] =
                          [pool EXCEPT !.reserveA = @ + amount0,
                                       !.reserveB = @ + amount1,
                                       !.totalShares = @ + shares,
                                       !.shares[sender] = @ + shares]],
              poolId, shares, 0)

addLiquidity(w, sender, tokenA, tokenB, amountA, amountB) ==
  IF ~(amountA > 0 /\ amountB > 0) THEN Revert(w, "Invalid amounts")
  ELSE IF tokenA = tokenB THEN Revert(w, "Identical tokens")
  ELSE
    LET token0 == IF AddrOf(tokenA) < AddrOf(tokenB) THEN tokenA ELSE tokenB
        token1 == IF AddrOf(tokenA) < AddrOf(tokenB) THEN tokenB ELSE tokenA
        amount0 == IF tokenA = token0 THEN amountA ELSE amountB
        amount1 == IF tokenA = token0 THEN amountB ELSE amountA
        poolId == getPoolId(tokenA, tokenB)
        pool0 == w.pools[poolId]
        pool == IF pool0.tokenA = ZERO
                THEN [pool0 EXCEPT !.tokenA = token0, !.tokenB = token1]
                ELSE pool0
        balance0Before == w.bal[token0][DEX]
        balance1Before == w.bal[token1][DEX]
        t0 == safeTransferFrom(w.bal, token0, sender, DEX, amount0)
        t1 == safeTransferFrom(t0.bal, token1, sender, DEX, amount1)
        added0 == t1.bal[token0][DEX] - balance0Before
        added1 == t1.bal[token1][DEX] - balance1Before
        shares == IF pool.totalShares = 0
                  THEN sqrt(added0 * added1)
                  ELSE min((added0 * pool.totalShares) \div pool.reserveA,
                           (added1 * pool.totalShares) \div pool.reserveB)
    IN IF ~t0.ok \/ ~t1.ok THEN Revert(w, "ERC20InsufficientBalance")
       ELSE IF ~(added0 > 0 /\ added1 > 0) THEN Revert(w, "No tokens received")
       ELSE IF pool.totalShares # 0 /\ (pool.reserveA = 0 \/ pool.reserveB = 0)
            THEN Revert(w, "Panic: division by zero")
       ELSE IF ~(shares > 0) THEN Revert(w, "Insufficient liquidity minted")
       ELSE Return(
              [w EXCEPT !.bal = t1.bal,
                        !.pools[poolId] =
                          [pool EXCEPT !.reserveA = @ + added0,
                                       !.reserveB = @ + added1,
                                       !.totalShares = @ + shares,
                                       !.shares[sender] = @ + shares]],
              poolId, shares, 0)

\* variant: the burn forgets pool.totalShares -= shares
removeLiquidity_KeepsTotalShares(w, sender, tokenA, tokenB, shares) ==
  LET poolId == getPoolId(tokenA, tokenB)
      pool == w.pools[poolId]
  IN IF ~(pool.shares[sender] >= shares) THEN Revert(w, "Insufficient shares")
     ELSE IF pool.totalShares = 0 THEN Revert(w, "Panic: division by zero")
     ELSE
       LET amountA == (shares * pool.reserveA) \div pool.totalShares
           amountB == (shares * pool.reserveB) \div pool.totalShares
           newPool == [pool EXCEPT !.shares[sender] = @ - shares,
                                   !.reserveA = @ - amountA,
                                   !.reserveB = @ - amountB]
           tA == safeTransfer(w.bal, pool.tokenA, DEX, sender, amountA)
           tB == safeTransfer(tA.bal, pool.tokenB, DEX, sender, amountB)
       IN IF ~tA.ok \/ ~tB.ok THEN Revert(w, "ERC20InsufficientBalance")
          ELSE Return([w EXCEPT !.bal = tB.bal, !.pools[poolId] = newPool],
                      poolId, amountA, amountB)

\* variant: the redemption divides by one share more than exist
removeLiquidity_KeepsDust(w, sender, tokenA, tokenB, shares) ==
  LET poolId == getPoolId(tokenA, tokenB)
      pool == w.pools[poolId]
  IN IF ~(pool.shares[sender] >= shares) THEN Revert(w, "Insufficient shares")
     ELSE IF pool.totalShares = 0 THEN Revert(w, "Panic: division by zero")
     ELSE
       LET amountA == (shares * pool.reserveA) \div (pool.totalShares + 1)
           amountB == (shares * pool.reserveB) \div (pool.totalShares + 1)
           newPool == [pool EXCEPT !.shares[sender] = @ - shares,
                                   !.totalShares = @ - shares,
                                   !.reserveA = @ - amountA,
                                   !.reserveB = @ - amountB]
           tA == safeTransfer(w.bal, pool.tokenA, DEX, sender, amountA)
           tB == safeTransfer(tA.bal, pool.tokenB, DEX, sender, amountB)
       IN IF ~tA.ok \/ ~tB.ok THEN Revert(w, "ERC20InsufficientBalance")
          ELSE Return([w EXCEPT !.bal = tB.bal, !.pools[poolId] = newPool],
                      poolId, amountA, amountB)

\* variant: the caller's share balance is not checked
removeLiquidity_NoShareCheck(w, sender, tokenA, tokenB, shares) ==
  LET poolId == getPoolId(tokenA, tokenB)
      pool == w.pools[poolId]
  IN IF pool.totalShares = 0 THEN Revert(w, "Panic: division by zero")
     ELSE
       LET amountA == (shares * pool.reserveA) \div pool.totalShares
           amountB == (shares * pool.reserveB) \div pool.totalShares
           newPool == [pool EXCEPT !.shares[sender] = @ - shares,
                                   !.totalShares = @ - shares,
                                   !.reserveA = @ - amountA,
                                   !.reserveB = @ - amountB]
           tA == safeTransfer(w.bal, pool.tokenA, DEX, sender, amountA)
           tB == safeTransfer(tA.bal, pool.tokenB, DEX, sender, amountB)
       IN IF ~tA.ok \/ ~tB.ok THEN Revert(w, "ERC20InsufficientBalance")
          ELSE Return([w EXCEPT !.bal = tB.bal, !.pools[poolId] = newPool],
                      poolId, amountA, amountB)

removeLiquidity(w, sender, tokenA, tokenB, shares) ==
  LET poolId == getPoolId(tokenA, tokenB)
      pool == w.pools[poolId]
  IN IF ~(pool.shares[sender] >= shares) THEN Revert(w, "Insufficient shares")
     ELSE IF pool.totalShares = 0 THEN Revert(w, "Panic: division by zero")
     ELSE
       LET amountA == (shares * pool.reserveA) \div pool.totalShares
           amountB == (shares * pool.reserveB) \div pool.totalShares
           newPool == [pool EXCEPT !.shares[sender] = @ - shares,
                                   !.totalShares = @ - shares,
                                   !.reserveA = @ - amountA,
                                   !.reserveB = @ - amountB]
           tA == safeTransfer(w.bal, pool.tokenA, DEX, sender, amountA)
           tB == safeTransfer(tA.bal, pool.tokenB, DEX, sender, amountB)
       IN IF ~tA.ok \/ ~tB.ok THEN Revert(w, "ERC20InsufficientBalance")
          ELSE Return([w EXCEPT !.bal = tB.bal, !.pools[poolId] = newPool],
                      poolId, amountA, amountB)

\* variant: minAmountOut is not enforced
swap_NoSlippageCheck(w, sender, tokenIn, tokenOut, amountIn, minAmountOut) ==
  IF ~(amountIn > 0) THEN Revert(w, "Invalid input amount")
  ELSE IF tokenIn = tokenOut THEN Revert(w, "Identical tokens")
  ELSE
    LET poolId == getPoolId(tokenIn, tokenOut)
        pool == w.pools[poolId]
        isTokenA == tokenIn = pool.tokenA
        reserveIn == IF isTokenA THEN pool.reserveA ELSE pool.reserveB
        reserveOut == IF isTokenA THEN pool.reserveB ELSE pool.reserveA
        balanceBefore == w.bal[tokenIn][DEX]
        tIn == safeTransferFrom(w.bal, tokenIn, sender, DEX, amountIn)
        actualAmountIn == tIn.bal[tokenIn][DEX] - balanceBefore
        amountOut == getAmountOut(actualAmountIn, reserveIn, reserveOut)
        newPool == IF isTokenA
                   THEN [pool EXCEPT !.reserveA = @ + actualAmountIn,
                                     !.reserveB = @ - amountOut]
                   ELSE [pool EXCEPT !.reserveB = @ + actualAmountIn,
                                     !.reserveA = @ - amountOut]
        tOut == safeTransfer(tIn.bal, tokenOut, DEX, sender, amountOut)
    IN IF ~(pool.reserveA > 0 /\ pool.reserveB > 0)
       THEN Revert(w, "Pool not initialized")
       ELSE IF ~tIn.ok THEN Revert(w, "ERC20InsufficientBalance")
       ELSE IF ~(actualAmountIn > 0) THEN Revert(w, "No input tokens received")
       ELSE IF ~(amountOut < reserveOut) THEN Revert(w, "Insufficient liquidity")
       ELSE IF ~tOut.ok THEN Revert(w, "ERC20InsufficientBalance")
       ELSE Return([w EXCEPT !.bal = tOut.bal, !.pools[poolId] = newPool],
                   poolId, amountOut, actualAmountIn)

\* variant: the direction of the trade is ignored, tokenIn is taken as tokenA
swap_FixedDirection(w, sender, tokenIn, tokenOut, amountIn, minAmountOut) ==
  IF ~(amountIn > 0) THEN Revert(w, "Invalid input amount")
  ELSE IF tokenIn = tokenOut THEN Revert(w, "Identical tokens")
  ELSE
    LET poolId == getPoolId(tokenIn, tokenOut)
        pool == w.pools[poolId]
        reserveIn == pool.reserveA
        reserveOut == pool.reserveB
        balanceBefore == w.bal[tokenIn][DEX]
        tIn == safeTransferFrom(w.bal, tokenIn, sender, DEX, amountIn)
        actualAmountIn == tIn.bal[tokenIn][DEX] - balanceBefore
        amountOut == getAmountOut(actualAmountIn, reserveIn, reserveOut)
        newPool == [pool EXCEPT !.reserveA = @ + actualAmountIn,
                                !.reserveB = @ - amountOut]
        tOut == safeTransfer(tIn.bal, tokenOut, DEX, sender, amountOut)
    IN IF ~(pool.reserveA > 0 /\ pool.reserveB > 0)
       THEN Revert(w, "Pool not initialized")
       ELSE IF ~tIn.ok THEN Revert(w, "ERC20InsufficientBalance")
       ELSE IF ~(actualAmountIn > 0) THEN Revert(w, "No input tokens received")
       ELSE IF ~(amountOut >= minAmountOut) THEN Revert(w, "Slippage too high")
       ELSE IF ~(amountOut < reserveOut) THEN Revert(w, "Insufficient liquidity")
       ELSE IF ~tOut.ok THEN Revert(w, "ERC20InsufficientBalance")
       ELSE Return([w EXCEPT !.bal = tOut.bal, !.pools[poolId] = newPool],
                   poolId, amountOut, actualAmountIn)

swap(w, sender, tokenIn, tokenOut, amountIn, minAmountOut) ==
  IF ~(amountIn > 0) THEN Revert(w, "Invalid input amount")
  ELSE IF tokenIn = tokenOut THEN Revert(w, "Identical tokens")
  ELSE
    LET poolId == getPoolId(tokenIn, tokenOut)
        pool == w.pools[poolId]
        isTokenA == tokenIn = pool.tokenA
        reserveIn == IF isTokenA THEN pool.reserveA ELSE pool.reserveB
        reserveOut == IF isTokenA THEN pool.reserveB ELSE pool.reserveA
        balanceBefore == w.bal[tokenIn][DEX]
        tIn == safeTransferFrom(w.bal, tokenIn, sender, DEX, amountIn)
        actualAmountIn == tIn.bal[tokenIn][DEX] - balanceBefore
        amountOut == getAmountOut(actualAmountIn, reserveIn, reserveOut)
        newPool == IF isTokenA
                   THEN [pool EXCEPT !.reserveA = @ + actualAmountIn,
                                     !.reserveB = @ - amountOut]
                   ELSE [pool EXCEPT !.reserveB = @ + actualAmountIn,
                                     !.reserveA = @ - amountOut]
        tOut == safeTransfer(tIn.bal, tokenOut, DEX, sender, amountOut)
    IN IF ~(pool.reserveA > 0 /\ pool.reserveB > 0)
       THEN Revert(w, "Pool not initialized")
       ELSE IF ~tIn.ok THEN Revert(w, "ERC20InsufficientBalance")
       ELSE IF ~(actualAmountIn > 0) THEN Revert(w, "No input tokens received")
       ELSE IF ~(amountOut >= minAmountOut) THEN Revert(w, "Slippage too high")
       ELSE IF ~(amountOut < reserveOut) THEN Revert(w, "Insufficient liquidity")
       ELSE IF ~tOut.ok THEN Revert(w, "ERC20InsufficientBalance")
       ELSE Return([w EXCEPT !.bal = tOut.bal, !.pools[poolId] = newPool],
                   poolId, amountOut, actualAmountIn)

\* ------------------------------------------------------ Fizz Caps rewards
\* variant: no cooldown between two plays
playFizzCaps_NoCooldown(w, sender, t, number) ==
  IF ~(number > 0 /\ number <= 100)
  THEN Revert(w, "Number must be between 1 and 100")
  ELSE Return([w EXCEPT !.players[sender].lastPlayTime = t,
                        !.players[sender].score = @ + 1],
              NoId, 0, 0)

playFizzCaps(w, sender, t, number) ==
  IF ~(number > 0 /\ number <= 100)
  THEN Revert(w, "Number must be between 1 and 100")
  ELSE
    LET player == w.players[sender]
        reward == IF number % 15 = 0 THEN FIZZBUZZ_REWARD
                  ELSE IF number % 3 = 0 THEN FIZZ_REWARD
                  ELSE IF number % 5 = 0 THEN BUZZ_REWARD
                  ELSE 0
        played == [player EXCEPT
                     !.lastPlayTime = t,
                     !.score = @ + 1,
                     !.fizzBuzzCount = IF number % 15 = 0 THEN @ + 1 ELSE @,
                     !.fizzCount =
                        IF number % 15 # 0 /\ number % 3 = 0 THEN @ + 1 ELSE @,
                     !.buzzCount =
                        IF number % 15 # 0 /\ number % 3 # 0 /\ number % 5 = 0
                        THEN @ + 1 ELSE @,
                     !.rewardBalance = IF reward > 0 THEN @ + reward ELSE @]
    IN IF ~(t >= player.lastPlayTime + PLAY_COOLDOWN)
       THEN Revert(w, "Cooldown active")
       ELSE Return([w EXCEPT !.players[sender] = played], NoId, reward, 0)

claimRewards(w, sender) ==
  LET player == w.players[sender]
      amount == player.rewardBalance
      tr == safeTransfer(w.bal, rewardToken, DEX, sender, amount)
  IN IF ~(amount > 0) THEN Revert(w, "No rewards to claim")
     ELSE IF ~tr.ok THEN Revert(w, "ERC20InsufficientBalance")
     ELSE Return([w EXCEPT !.players[sender].rewardBalance = 0,
                           !.bal = tr.bal],
                 NoId, amount, 0)

fundRewards(w, sender, amount) ==
  LET tr == safeTransferFrom(w.bal, rewardToken, sender, DEX, amount)
  IN IF sender # Owner THEN Revert(w, "OwnableUnauthorizedAccount")
     ELSE IF ~tr.ok THEN Revert(w, "ERC20InsufficientBalance")
     ELSE Return([w EXCEPT !.bal = tr.bal], NoId, amount, 0)

\* ------------------------------------------------- atomic swap state machine
\* keccak256(abi.encodePacked(...)) of the six fields: the id is the tuple
SwapId(initiator, participant, token, actualReceived, secretHash, timelock) ==
  <<initiator, participant, token, actualReceived, secretHash, timelock>>

\* a swap record that is neither completed nor refunded
Created(s) == s.initiator # ZERO /\ ~s.completed /\ ~s.refunded

\* variant: a finished swap no longer blocks its id
SwapExists_OnlyWhileCreated(swaps, swapId) == Created(SwapAt(swaps, swapId))

\* require(atomicSwaps[swapId].initiator == address(0), "Swap already exists")
SwapExists(swaps, swapId) == SwapAt(swaps, swapId).initiator # ZERO

\* variant: a timelock equal to the current time is accepted
initiateAtomicSwap_TimelockNotStrict(w, sender, t, participant, token, amount, secretHash, timelock) ==
  IF ~(timelock >= t) THEN Revert(w, "Invalid timelock")
  ELSE IF ~(amount > 0) THEN Revert(w, "Invalid amount")
  ELSE
    LET balanceBefore == w.bal[token][DEX]
        tr == safeTransferFrom(w.bal, token, sender, DEX, amount)
        actualReceived == tr.bal[token][DEX] - balanceBefore
        swapId == SwapId(sender, participant, token, actualReceived,
                         secretHash, timelock)
        rec == [SwapAt(w.swaps, swapId) EXCEPT
                  !.initiator = sender,
                  !.participant = participant,
                  !.token = token,
                  !.amount = actualReceived,
                  !.secretHash = secretHash,
                  !.timelock = timelock]
    IN IF ~tr.ok THEN Revert(w, "ERC20InsufficientBalance")
       ELSE IF ~(actualReceived > 0) THEN Revert(w, "No tokens received")
       ELSE IF SwapExists(w.swaps, swapId) THEN Revert(w, "Swap already exists")
       ELSE Return([w EXCEPT !.bal = tr.bal,
                             !.swaps = [k \in (DOMAIN w.swaps) \cup {swapId} |->
                                          IF k = swapId THEN rec ELSE w.swaps[k]]],
                   swapId, actualReceived, 0)

\* variant: the nominal amount is recorded and hashed into the id
initiateAtomicSwap_StoresNominal(w, sender, t, participant, token, amount, secretHash, timelock) ==
  IF ~(timelock > t) THEN Revert(w, "Invalid timelock")
  ELSE IF ~(amount > 0) THEN Revert(w, "Invalid amount")
  ELSE
    LET balanceBefore == w.bal[token][DEX]
        tr == safeTransferFrom(w.bal, token, sender, DEX, amount)
        actualReceived == tr.bal[token][DEX] - balanceBefore
        swapId == SwapId(sender, participant, token, amount,
                         secretHash, timelock)
        rec == [SwapAt(w.swaps, swapId) EXCEPT
                  !.initiator = sender,
                  !.participant = participant,
                  !.token = token,
                  !.amount = amount,
                  !.secretHash = secretHash,
                  !.timelock = timelock]
    IN IF ~tr.ok THEN Revert(w, "ERC20InsufficientBalance")
       ELSE IF ~(actualReceived > 0) THEN Revert(w, "No tokens received")
       ELSE IF SwapExists(w.swaps, swapId) THEN Revert(w, "Swap already exists")
       ELSE Return([w EXCEPT !.bal = tr.bal,
                             !.swaps = [k \in (DOMAIN w.swaps) \cup {swapId} |->
                                          IF k = swapId THEN rec ELSE w.swaps[k]]],
                   swapId, actualReceived, 0)

initiateAtomicSwap(w, sender, t, participant, token, amount, secretHash, timelock) ==
  IF ~(timelock > t) THEN Revert(w, "Invalid timelock")
  ELSE IF ~(amount > 0) THEN Revert(w, "Invalid amount")
  ELSE
    LET balanceBefore == w.bal[token][DEX]
        tr == safeTransferFrom(w.bal, token, sender, DEX, amount)
        actualReceived == tr.bal[token][DEX] - balanceBefore
        swapId == SwapId(sender, participant, token, actualReceived,
                         secretHash, timelock)
        rec == [SwapAt(w.swaps, swapId) EXCEPT
                  !.initiator = sender,
                  !.participant = participant,
                  !.token = token,
                  !.amount = actualReceived,
                  !.secretHash = secretHash,
                  !.timelock = timelock]
    IN IF ~tr.ok THEN Revert(w, "ERC20InsufficientBalance")
       ELSE IF ~(actualReceived > 0) THEN Revert(w, "No tokens received")
       ELSE IF SwapExists(w.swaps, swapId) THEN Revert(w, "Swap already exists")
       ELSE Return([w EXCEPT !.bal = tr.bal,
                             !.swaps = [k \in (DOMAIN w.swaps) \cup {swapId} |->
                                          IF k = swapId THEN rec ELSE w.swaps[k]]],
                   swapId, actualReceived, 0)

\* variant: the preimage is not checked
completeAtomicSwap_NoSecretCheck(w, sender, t, swapId, secret) ==
  LET s == SwapAt(w.swaps, swapId)
      tr == safeTransfer(w.bal, s.token, DEX, s.participant, s.amount)
  IN IF s.participant # sender THEN Revert(w, "Not the participant")
     ELSE IF s.completed THEN Revert(w, "Already completed")
     ELSE IF s.refunded THEN Revert(w, "Already refunded")
     ELSE IF ~(t <= s.timelock) THEN Revert(w, "Swap expired")
     ELSE IF ~tr.ok THEN Revert(w, "ERC20InsufficientBalance")
     ELSE Return([w EXCEPT !.swaps[swapId].completed = TRUE, !.bal = tr.bal],
                 swapId, s.amount, 0)

\* variant: any caller may complete
completeAtomicSwap_AnyCaller(w, sender, t, swapId, secret) ==
  LET s == SwapAt(w.swaps, swapId)
      tr == safeTransfer(w.bal, s.token, DEX, s.participant, s.amount)
  IN IF s.completed THEN Revert(w, "Already completed")
     ELSE IF s.refunded THEN Revert(w, "Already refunded")
     ELSE IF ~(t <= s.timelock) THEN Revert(w, "Swap expired")
     ELSE IF keccak256(secret) # s.secretHash THEN Revert(w, "Invalid secret")
     ELSE IF ~tr.ok THEN Revert(w, "ERC20InsufficientBalance")
     ELSE Return([w EXCEPT !.swaps[swapId].completed = TRUE, !.bal = tr.bal],
                 swapId, s.amount, 0)

completeAtomicSwap_CompletesAll(w, sender, t, swapId, secret) ==
  LET s == SwapAt(w.swaps, swapId)
      tr == safeTransfer(w.bal, s.token, DEX, s.participant, s.amount)
  IN IF s.participant # sender THEN Revert(w, "Not the participant")
     ELSE IF s.completed THEN Revert(w, "Already completed")
     ELSE IF s.refunded THEN Revert(w, "Already refunded")
     ELSE IF ~(t <= s.timelock) THEN Revert(w, "Swap expired")
     ELSE IF keccak256(secret) # s.secretHash THEN Revert(w, "Invalid secret")
     ELSE IF ~tr.ok THEN Revert(w, "ERC20InsufficientBalance")
     ELSE Return([w EXCEPT !.swaps = [k \in DOMAIN w.swaps |->
                                        [w.swaps[k] EXCEPT !.completed = TRUE]],
                           !.bal = tr.bal],
                 swapId, s.amount, 0)

completeAtomicSwap(w, sender, t, swapId, secret) ==
  LET s == SwapAt(w.swaps, swapId)
      tr == safeTransfer(w.bal, s.token, DEX, s.participant, s.amount)
  IN IF s.participant # sender THEN Revert(w, "Not the participant")
     ELSE IF s.completed THEN Revert(w, "Already completed")
     ELSE IF s.refunded THEN Revert(w, "Already refunded")
     ELSE IF ~(t <= s.timelock) THEN Revert(w, "Swap expired")
     ELSE IF keccak256(secret) # s.secretHash THEN Revert(w, "Invalid secret")
     ELSE IF ~tr.ok THEN Revert(w, "ERC20InsufficientBalance")
     ELSE Return([w EXCEPT !.swaps[swapId].completed = TRUE, !.bal = tr.bal],
                 swapId, s.amount, 0)

\* variant: a completed swap can still be refunded
refundAtomicSwap_NoCompletedCheck(w, sender, t, swapId) ==
  LET s == SwapAt(w.swaps, swapId)
      tr == safeTransfer(w.bal, s.token, DEX, s.initiator, s.amount)
  IN IF s.initiator # sender THEN Revert(w, "Not the initiator")
     ELSE IF s.refunded THEN Revert(w, "Already refunded")
     ELSE IF ~(t > s.timelock) THEN Revert(w, "Timelock not expired")
     ELSE IF ~tr.ok THEN Revert(w, "ERC20InsufficientBalance")
     ELSE Return([w EXCEPT !.swaps[swapId].refunded = TRUE, !.bal = tr.bal],
                 swapId, s.amount, 0)

\* variant: the refund opens at the timelock instead of after it
refundAtomicSwap_TimelockNotStrict(w, sender, t, swapId) ==
  LET s == SwapAt(w.swaps, swapId)
      tr == safeTransfer(w.bal, s.token, DEX, s.initiator, s.amount)
  IN IF s.initiator # sender THEN Revert(w, "Not the initiator")
     ELSE IF s.completed THEN Revert(w, "Already completed")
     ELSE IF s.refunded THEN Revert(w, "Already refunded")
     ELSE IF ~(t >= s.timelock) THEN Revert(w, "Timelock not expired")
     ELSE IF ~tr.ok THEN Revert(w, "ERC20InsufficientBalance")
     ELSE Return([w EXCEPT !.swaps[swapId].refunded = TRUE, !.bal = tr.bal],
                 swapId, s.amount, 0)

refundAtomicSwap(w, sender, t, swapId) ==
  LET s == SwapAt(w.swaps, swapId)
      tr == safeTransfer(w.bal, s.token, DEX, s.initiator, s.amount)
  IN IF s.initiator # sender THEN Revert(w, "Not the initiator")
     ELSE IF s.completed THEN Revert(w, "Already completed")
     ELSE IF s.refunded THEN Revert(w, "Already refunded")
     ELSE IF ~(t > s.timelock) THEN Revert(w, "Timelock not expired")
     ELSE IF ~tr.ok THEN Revert(w, "ERC20InsufficientBalance")
     ELSE Return([w EXCEPT !.swaps[swapId].refunded = TRUE, !.bal = tr.bal],
                 swapId, s.amount, 0)

\* ------------------------------------------------------------ transactions
\* an id no initiateAtomicSwap of the explored inputs can produce
UnknownSwapId == SwapId("alice", "bob", FIZZ, 1, keccak256(1), Genesis + 1)

SwapIdArgs == (DOMAIN atomicSwaps) \cup {UnknownSwapId}

NoCall ==
  [op |-> "deploy", ok |-> TRUE, err |-> "", sender |-> Owner, id |-> NoId,
   token |-> "", amount |-> 0, secret |-> 0, ret |-> 0, ret2 |-> 0]

\* The transaction is mined: the resulting world becomes the state, and the
\* receipt (call, arguments, outcome) is kept in last.  A reverted call keeps
\* its revert reason; of its arguments only the secret and, where idArg is
\* given, the caller and idArg (the id of complete / refund, the amounts of
\* the pool calls explored on their own) are kept.  At most MaxCalls
\* successful calls are explored, and after them one more reverted call per
\* block.
Commit(op, sender, r, idArg, token, amount, secret) ==
  /\ calls < MaxCalls \/ (last.ok /\ ~r.ok)
  /\ balances' = r.w.bal
  /\ pools' = r.w.pools
  /\ atomicSwaps' = r.w.swaps
  /\ players' = r.w.players
  /\ calls' = IF r.ok THEN calls + 1 ELSE calls
  /\ last' = IF r.ok
             THEN [op |-> op, ok |-> TRUE, err |-> "", sender |-> sender,
                   id |-> r.id, token |-> token, amount |-> amount,
                   secret |-> secret, ret |-> r.ret, ret2 |-> r.ret2]
             ELSE [op |-> op, ok |-> FALSE, err |-> r.err,
                   sender |-> IF idArg = NoId THEN ZERO ELSE sender,
                   id |-> idArg, token |-> "", amount |-> 0,
                   secret |-> secret, ret |-> 0, ret2 |-> 0]
  /\ UNCHANGED now
  /\ UNCHANGED frame

\* no quote has been asked for
NoQuote ==
  [amountIn |-> 0, reserveIn |-> 0, reserveOut |-> 0, amountOut |-> 0,
   remainder |-> 0, done |-> FALSE]

\* the contract right after its constructor, with the given token holdings
Constructed(Holding(_, _)) ==
  /\ balances = [t \in Tokens |-> [h \in Holders |-> Holding(t, h)]]
  /\ pools = [p \in PoolIds |-> EmptyPool]
  /\ atomicSwaps = [k \in {} |-> EmptySwap]
  /\ players = [u \in Users |-> EmptyPlayer]
  /\ now = Genesis
  /\ calls = 0
  /\ last = NoCall
  /\ reentrancy = NotEntered

Init ==
  /\ Constructed(InitialHolding)
  /\ quote = NoQuote
  /\ feeBasisPoints = LargestFeeBasisPoints
  /\ RelayerStarted(FALSE)

\* a later block: block.timestamp only grows
Tick ==
  /\ \E t \in Times : t > now /\ now' = t
  /\ last' = [NoCall EXCEPT !.op = "tick"]
  /\ UNCHANGED <<balances, pools, atomicSwaps, players, calls>>
  /\ UNCHANGED frame

AddLiquidity ==
  /\ \E sender \in Users, pair \in TokenPairs,
        amountA \in Amounts, amountB \in {0, DepositB} :
       Commit("addLiquidity", sender,
              addLiquidity(World, sender, pair[1], pair[2], amountA, amountB),
              NoId, pair[1], amountA, 0)

RemoveLiquidity ==
  /\ \E sender \in Users, pair \in TokenPairs, shares \in ShareAmounts :
       Commit("removeLiquidity", sender,
              removeLiquidity(World, sender, pair[1], pair[2], shares),
              NoId, pair[1], shares, 0)

Swap ==
  /\ \E sender \in Users, pair \in TokenPairs,
        amountIn \in Amounts, minAmountOut \in MinOuts :
       Commit("swap", sender,
              swap(World, sender, pair[1], pair[2], amountIn, minAmountOut),
              NoId, pair[1], amountIn, 0)

PlayFizzCaps ==
  /\ \E sender \in Users, number \in Numbers :
       Commit("playFizzCaps", sender,
              playFizzCaps(World, sender, now, number), NoId, "", number, 0)

ClaimRewards ==
  /\ \E sender \in Users :
       Commit("claimRewards", sender, claimRewards(World, sender),
              NoId, rewardToken, 0, 0)

FundRewards ==
  /\ \E sender \in Users, amount \in Amounts \ {0} :
       Commit("fundRewards", sender, fundRewards(World, sender, amount),
              NoId, rewardToken, amount, 0)

InitiateAtomicSwap ==
  /\ \E sender \in Users, token \in Tokens, amount \in Amounts,
        secretHash \in Hashes, timelock \in Timelocks :
     \E participant \in Users \ {sender} :
       LET r == initiateAtomicSwap(World, sender, now, participant, token,
                                   amount, secretHash, timelock)
       IN /\ Cardinality(DOMAIN r.w.swaps) <= MaxSwaps
          /\ Commit("initiateAtomicSwap", sender, r, NoId, token, amount, 0)

CompleteAtomicSwap ==
  /\ \E sender \in Users, swapId \in SwapIdArgs, secret \in Secrets :
       Commit("completeAtomicSwap", sender,
              completeAtomicSwap(World, sender, now, swapId, secret),
              swapId, "", 0, secret)

RefundAtomicSwap ==
  /\ \E sender \in Users, swapId \in SwapIdArgs :
       Commit("refundAtomicSwap", sender,
              refundAtomicSwap(World, sender, now, swapId),
              swapId, "", 0, 0)

Next ==
  \/ Tick
  \/ AddLiquidity
  \/ RemoveLiquidity
  \/ Swap
  \/ PlayFizzCaps
  \/ ClaimRewards
  \/ FundRewards
  \/ InitiateAtomicSwap
  \/ CompleteAtomicSwap
  \/ RefundAtomicSwap

Spec == Init /\ [][Next]_vars

TypeOK ==
  /\ now \in Times
  /\ calls \in 0..MaxCalls
  /\ \A t \in Tokens : \A h \in Holders : balances[t][h] \in Nat

\* ------------------------------------------------- the pool on its own
\* Deposits, withdrawals and trades over a range of amounts, with the fee
\* token deployed at 1% or at 10%.
\* number of successful pool calls explored
PoolCalls == 2
\* largest amount of the explored range
MaxAmount == 8
\* tokens the liquidity provider holds initially
PoolBalance == 2000

PoolHolding(t, h) ==
  IF h = "alice" THEN PoolBalance
  ELSE IF h = "bob" THEN InitialBalance
  ELSE 0

InitPool ==
  /\ Constructed(PoolHolding)
  /\ quote = NoQuote
  /\ feeBasisPoints \in {OnePercentFeeBasisPoints, LargestFeeBasisPoints}
  /\ RelayerStarted(FALSE)

\* amounts a caller chooses from: the provider uses the round amounts of the
\* test suite with the 1% token and the whole range with the 10% token
PoolAmounts(sender) ==
  IF sender # "alice" THEN Amounts \ {0}
  ELSE IF feeBasisPoints = OnePercentFeeBasisPoints THEN {100, 1000}
  ELSE 1..MaxAmount

\* share amounts a caller chooses from, all of the caller's shares included
PoolShares(sender) ==
  LET own == pools[getPoolId(FEE, FIZZ)].shares[sender]
  IN (1..MaxAmount) \cup {own, own + 1}

\* a reverted call leaves the state it started from, whose continuations are
\* explored from there: nothing is explored after a revert
PoolCallable == calls < PoolCalls /\ last.ok

PoolAddLiquidity ==
  /\ PoolCallable
  /\ \E sender \in Users :
     \E amountA \in PoolAmounts(sender), amountB \in PoolAmounts(sender) :
       Commit("addLiquidity", sender,
              addLiquidity(World, sender, FEE, FIZZ, amountA, amountB),
              <<amountA, amountB>>, FEE, amountA, 0)

PoolRemoveLiquidity ==
  /\ PoolCallable
  /\ \E sender \in Users :
     \E shares \in PoolShares(sender) :
       Commit("removeLiquidity", sender,
              removeLiquidity(World, sender, FEE, FIZZ, shares),
              <<shares>>, FEE, shares, 0)

PoolSwap ==
  /\ PoolCallable
  /\ \E sender \in Users, pair \in TokenPairs :
     \E amountIn \in PoolAmounts(sender) :
       Commit("swap", sender,
              swap(World, sender, pair[1], pair[2], amountIn, 0),
              NoId, pair[1], amountIn, 0)

NextPool ==
  \/ PoolAddLiquidity
  \/ PoolRemoveLiquidity
  \/ PoolSwap

SpecPool == InitPool /\ [][NextPool]_vars

\* ------------------------------------------------- the quote on its own
\* amountIn and reserves the output formula is evaluated on
QuoteAmounts == {1, 10, 100, 1000, 10000}
QuoteReserves == {1000, 10000, 100000, 1000000}

InitQuote ==
  /\ Constructed(InitialHolding)
  /\ quote \in [amountIn : QuoteAmounts, reserveIn : QuoteReserves,
                 reserveOut : QuoteReserves, amountOut : {0},
                 remainder : {0}, done : {FALSE}]
  /\ feeBasisPoints = LargestFeeBasisPoints
  /\ RelayerStarted(FALSE)

\* lines 202-203 of swap evaluated on the drawn input and reserves
ComputeAmountOut ==
  /\ ~quote.done
  /\ LET amountInWithFee == quote.amountIn * 997
         denominator == quote.reserveIn * 1000 + amountInWithFee
     IN quote' = [quote EXCEPT
                    !.amountOut = getAmountOut(quote.amountIn, quote.reserveIn,
                                               quote.reserveOut),
                    !.remainder = mulDivQR(amountInWithFee, quote.reserveOut,
                                           denominator)[2],
                    !.done = TRUE]
  /\ UNCHANGED <<contractVars, feeBasisPoints, reentrancy, relayerVars>>

NextQuote == ComputeAmountOut

SpecQuote == InitQuote /\ [][NextQuote]_vars

\* --------------------------------------------------------- the relayer
\* worker passes explored at the same time
MaxPasses == 2

\* Object.keys of a mapping object
Keys(m) == {m[i] : i \in 1..Len(m)}
\* m[id] = entry: a new key goes last, a present key keeps its place
Put(m, id) == IF id \in Keys(m) THEN m ELSE Append(m, id)
\* delete m[id]
Delete(m, id) == SelectSeq(m, LAMBDA k : k # id)

\* the secret that completeAtomicSwap(swapId, secret) reveals on the
\* originating ledger, as ethers.toUtf8String reads it from the transaction
Preimage(swapId) == IF swapId = "0xa1" THEN "secret-a1" ELSE "secret-b2"
Preimages == {Preimage(swapId) : swapId \in SwapIds}

\* console.log / console.warn with its arguments
Line(msg, args) == [msg |-> msg, args |-> args]

\* process.env.RELAYER_API_KEY and the credentials requests arrive with
\* (no header, the configured key, another key)
RELAYER_API_KEY == "key"
ApiKeys == {"", "key", "other"}

\* the API key middleware: next() is reached
\* variant: the middleware lets every request through
apiKeyAuth_Open(method, key) == TRUE

apiKeyAuth(method, key) ==
  ~(method = "POST" /\ RELAYER_API_KEY # ""
      /\ (key = "" \/ key # RELAYER_API_KEY))

\* the relayer leaves the modelled ledger, the quote and the token alone; the
\* configuration is read-only and the rate limiter is explored on its own
RelayerStep ==
  UNCHANGED <<contractVars, quote, feeBasisPoints, reentrancy, allowAuto, mappingsKey,
              rateMap, dateNow, admitted, routing>>

\* a step of a background task sends no HTTP response
TaskStep == res' = NoResponse /\ RelayerStep

\* a request answered by a middleware or by an early return of its handler:
\* nothing but the response
Answer(route, key, status) ==
  /\ res' = [route |-> route, key |-> key, status |-> status, id |-> ""]
  /\ console' = <<>>
  /\ UNCHANGED <<file, encrypted, relayerMappings, listening, handler, passes,
                 evmCompleted, solanaCompleted, recorded, purged>>
  /\ RelayerStep

InitRelayer ==
  /\ Constructed(InitialHolding)
  /\ quote = NoQuote
  /\ feeBasisPoints = LargestFeeBasisPoints
  /\ \E auto \in BOOLEAN : RelayerStarted(auto)

\* POST /start-listen
StartListenWith(key) ==
  IF ~apiKeyAuth("POST", key) THEN Answer("/start-listen", key, 401)
  ELSE /\ listening' = TRUE
       /\ res' = [route |-> "/start-listen", key |-> key, status |-> 200,
                  id |-> ""]
       /\ console' = <<>>
       /\ UNCHANGED <<file, encrypted, relayerMappings, handler, passes,
                      evmCompleted, solanaCompleted, recorded, purged>>
       /\ RelayerStep

\* POST /solana/initiate-htlc with an evmSwapId, the lock transaction
\* confirmed: the entry is written to the object and the object saved as
\* JSON (a failed transaction answers 500 before the mapping is touched)
InitiateHtlcWith(key) ==
  IF ~apiKeyAuth("POST", key) THEN Answer("/solana/initiate-htlc", key, 401)
  ELSE \E evmSwapId \in SwapIds, sent \in BOOLEAN :
         IF ~sent THEN Answer("/solana/initiate-htlc", key, 500)
         ELSE
           /\ relayerMappings' = Put(relayerMappings, evmSwapId)
           /\ file' = relayerMappings'
           /\ encrypted' = FALSE
           /\ recorded' = recorded \cup {evmSwapId}
           /\ purged' = purged \ {evmSwapId}
           /\ res' = [route |-> "/solana/initiate-htlc", key |-> key,
                      status |-> 200, id |-> evmSwapId]
           /\ console' = <<>>
           /\ UNCHANGED <<listening, handler, passes, evmCompleted,
                          solanaCompleted>>
           /\ RelayerStep

\* DELETE /mappings/:id (404 and nothing written when the id is unknown)
DeleteMappingWith(key) ==
  IF ~apiKeyAuth("DELETE", key) THEN Answer("/mappings/:id", key, 401)
  ELSE \E id \in SwapIds :
         IF id \notin Keys(relayerMappings)
         THEN Answer("/mappings/:id", key, 404)
         ELSE
           /\ relayerMappings' = Delete(relayerMappings, id)
           /\ file' = relayerMappings'
           /\ encrypted' = FALSE
           /\ purged' = purged \cup {id}
           /\ res' = [route |-> "/mappings/:id", key |-> key, status |-> 200,
                      id |-> id]
           /\ console' = <<>>
           /\ UNCHANGED <<listening, handler, passes, evmCompleted,
                          solanaCompleted, recorded>>
           /\ RelayerStep

\* the AtomicSwapCompleted event of a swap completed on the originating
\* ledger reaches the listener, if one is registered: the callback logs the
\* event and runs up to await provider.getTransaction
Emitted(swapId) ==
  /\ evmCompleted' = evmCompleted \cup {swapId}
  /\ handler' = IF listening
                 THEN [handler EXCEPT ![swapId] = "getTransaction"]
                 ELSE handler
  /\ console' = IF listening
                 THEN <<Line("[Relayer] AtomicSwapCompleted", <<swapId>>)>>
                 ELSE <<>>

\* POST /submit-secret: the relayer's signer sends completeAtomicSwap to the
\* originating ledger and waits for the receipt (500 when the call reverts
\* or the RPC fails)
SubmitSecretWith(key) ==
  IF ~apiKeyAuth("POST", key) THEN Answer("/submit-secret", key, 401)
  ELSE \E swapId \in SwapIds, mined \in BOOLEAN :
         IF ~mined \/ swapId \in evmCompleted
         THEN Answer("/submit-secret", key, 500)
         ELSE
           /\ Emitted(swapId)
           /\ res' = [route |-> "/submit-secret", key |-> key, status |-> 200,
                      id |-> ""]
           /\ UNCHANGED <<file, encrypted, relayerMappings, listening, passes,
                          solanaCompleted, recorded, purged>>
           /\ RelayerStep

\* POST /solana/complete-htlc: the relayer signs and sends the completion
\* of a counterpart lock named by the caller (500 when it throws)
CompleteHtlcWith(key) ==
  IF ~apiKeyAuth("POST", key) THEN Answer("/solana/complete-htlc", key, 401)
  ELSE \E swapId \in SwapIds, confirmed \in BOOLEAN :
         IF ~confirmed THEN Answer("/solana/complete-htlc", key, 500)
         ELSE
           /\ solanaCompleted' = solanaCompleted \cup {swapId}
           /\ res' = [route |-> "/solana/complete-htlc", key |-> key,
                      status |-> 200, id |-> ""]
           /\ console' = <<>>
           /\ UNCHANGED <<file, encrypted, relayerMappings, listening,
                          handler, passes, evmCompleted, recorded, purged>>
           /\ RelayerStep

\* the requests of an operator who holds the configured credential, where
\* they are answered 200 (the other answers change nothing but res and are
\* explored with the API on its own)
StartListen == ~listening /\ StartListenWith(RELAYER_API_KEY)
InitiateHtlc == InitiateHtlcWith(RELAYER_API_KEY) /\ res'.status = 200
DeleteMapping == DeleteMappingWith(RELAYER_API_KEY) /\ res'.status = 200

\* completeAtomicSwap(swapId, secret) is mined on the originating ledger
AtomicSwapCompleted ==
  /\ \E swapId \in SwapIds \ evmCompleted : Emitted(swapId)
  /\ UNCHANGED <<file, encrypted, relayerMappings, listening, passes,
                 solanaCompleted, recorded, purged>>
  /\ TaskStep

\* the callback resumes with the transaction (or with null and returns),
\* logs the preimage it extracted, reads relayerMappings[swapId] and, with a
\* mapping and auto-completion allowed, runs up to await completeSolanaHTLC
HandlerGetTransaction ==
  /\ \E swapId \in SwapIds, tx \in BOOLEAN :
       LET map == swapId \in Keys(relayerMappings)
       IN /\ handler[swapId] = "getTransaction"
          /\ handler' = [handler EXCEPT ![swapId] =
                           IF tx /\ map /\ allowAuto
                           THEN "completeSolanaHTLC" ELSE "idle"]
          /\ console' =
               IF ~tx THEN <<>>
               ELSE <<Line("[Relayer] Extracted preimage from EVM completion:",
                           <<Preimage(swapId)>>)>>
                    \o (IF map /\ allowAuto
                        THEN <<Line("[Relayer] Auto-completing mapped Solana HTLC for swapId",
                                    <<swapId>>)>>
                        ELSE IF map
                        THEN <<Line("[Relayer] Mapped Solana HTLC exists but auto-complete disabled",
                                    <<swapId>>)>>
                        ELSE <<>>)
  /\ UNCHANGED <<file, encrypted, relayerMappings, listening, passes,
                 evmCompleted, solanaCompleted, recorded, purged>>
  /\ TaskStep

\* variant: the entry is deleted and the object saved whatever the outcome
HandlerComplete_DeletesAnyway ==
  /\ \E swapId \in SwapIds, confirmed \in BOOLEAN :
       /\ handler[swapId] = "completeSolanaHTLC"
       /\ handler' = [handler EXCEPT ![swapId] = "idle"]
       /\ relayerMappings' = Delete(relayerMappings, swapId)
       /\ file' = relayerMappings'
       /\ encrypted' = FALSE
       /\ IF confirmed
          THEN /\ solanaCompleted' = solanaCompleted \cup {swapId}
               /\ console' = <<>>
          ELSE /\ console' = <<Line("[Relayer] Error handling AtomicSwapCompleted:",
                                    <<"error">>)>>
               /\ UNCHANGED solanaCompleted
  /\ UNCHANGED <<listening, passes, evmCompleted, recorded, purged>>
  /\ TaskStep

\* the callback resumes after completeSolanaHTLC: confirmed, it deletes the
\* entry from the object and saves the object; thrown, it only logs
HandlerComplete ==
  /\ \E swapId \in SwapIds, confirmed \in BOOLEAN :
       /\ handler[swapId] = "completeSolanaHTLC"
       /\ handler' = [handler EXCEPT ![swapId] = "idle"]
       /\ IF confirmed
          THEN /\ solanaCompleted' = solanaCompleted \cup {swapId}
               /\ relayerMappings' = Delete(relayerMappings, swapId)
               /\ file' = relayerMappings'
               /\ encrypted' = FALSE
               /\ console' = <<>>
          ELSE /\ console' = <<Line("[Relayer] Error handling AtomicSwapCompleted:",
                                    <<"error">>)>>
               /\ UNCHANGED <<solanaCompleted, relayerMappings, file,
                              encrypted>>
  /\ UNCHANGED <<listening, passes, evmCompleted, recorded, purged>>
  /\ TaskStep

\* a worker pass without the i-th of the passes in progress
WithoutPass(i) == SubSeq(passes, 1, i - 1) \o SubSeq(passes, i + 1, Len(passes))

\* the for loop of a pass moves to its next key, or the pass ends
NextKey(i, pass) ==
  IF Len(pass.keys) = 1 THEN WithoutPass(i)
  ELSE [passes EXCEPT ![i] = [pass EXCEPT !.keys = Tail(pass.keys),
                                          !.pc = "getLogs"]]

\* loadMappings of the worker: the file as JSON, decrypted first when it
\* holds iv:ciphertext and the key is set; {} when it cannot be parsed
WorkerLoadMappings == IF encrypted /\ ~mappingsKey THEN <<>> ELSE file

\* the setInterval callback of startWorker fires, whether or not an earlier
\* pass is still suspended: it loads its snapshot of the file and runs up
\* to await provider.getLogs for the first key; with no key it returns
WorkerPoll ==
  /\ Len(passes) < MaxPasses
  /\ passes' = IF WorkerLoadMappings = <<>> THEN passes
               ELSE Append(passes, [mappings |-> WorkerLoadMappings,
                                    keys |-> WorkerLoadMappings,
                                    pc |-> "getLogs"])
  /\ console' = <<>>
  /\ UNCHANGED <<file, encrypted, relayerMappings, listening, handler,
                 evmCompleted, solanaCompleted, recorded, purged>>
  /\ TaskStep

\* tryCompleteForSwap resumes with the logs of the contract: a completion of
\* the key's swap among them leads to await completeSolanaHTLCWrapper; none,
\* or a failed RPC call, returns false and the loop goes on
WorkerGetLogsAt(i, rpc) ==
  /\ i \in 1..Len(passes)
  /\   LET pass == passes[i]
           swapId == Head(pass.keys)
       IN /\ pass.pc = "getLogs"
          /\ passes' = IF rpc /\ swapId \in evmCompleted
                        THEN [passes EXCEPT ![i].pc = "complete"]
                        ELSE NextKey(i, pass)
          /\ console' =
               IF ~rpc
               THEN <<Line("[Worker] error checking logs for swap",
                           <<swapId, "error">>)>>
               ELSE IF swapId \in evmCompleted
               THEN <<Line("[Worker] found preimage for", <<swapId>>)>>
               ELSE <<>>
  /\ UNCHANGED <<file, encrypted, relayerMappings, listening, handler,
                 evmCompleted, solanaCompleted, recorded, purged>>
  /\ TaskStep

WorkerGetLogs ==
  \E i \in 1..Len(passes), rpc \in BOOLEAN : WorkerGetLogsAt(i, rpc)

\* tryCompleteForSwap resumes after completeSolanaHTLCWrapper: confirmed, it
\* returns true and the pass deletes the key from its snapshot and saves the
\* snapshot, encrypted when the key is set; thrown, it returns false
WorkerCompleteAt(i, confirmed) ==
  /\ i \in 1..Len(passes)
  /\   LET pass == passes[i]
           swapId == Head(pass.keys)
           mappings == Delete(pass.mappings, swapId)
       IN /\ pass.pc = "complete"
          /\ IF confirmed
             THEN /\ solanaCompleted' = solanaCompleted \cup {swapId}
                  /\ file' = mappings
                  /\ encrypted' = mappingsKey
                  /\ passes' = NextKey(i, [pass EXCEPT !.mappings = mappings])
                  /\ console' = <<Line("[Worker] completed Solana HTLC, txSig",
                                       <<"txSig">>)>>
             ELSE /\ passes' = NextKey(i, pass)
                  /\ console' = <<Line("[Worker] error checking logs for swap",
                                       <<swapId, "error">>)>>
                  /\ UNCHANGED <<solanaCompleted, file, encrypted>>
  /\ UNCHANGED <<relayerMappings, listening, handler, evmCompleted, recorded,
                 purged>>
  /\ TaskStep

WorkerComplete ==
  \E i \in 1..Len(passes), confirmed \in BOOLEAN : WorkerCompleteAt(i, confirmed)

NextRelayer ==
  \/ StartListen
  \/ InitiateHtlc
  \/ DeleteMapping
  \/ AtomicSwapCompleted
  \/ HandlerGetTransaction
  \/ HandlerComplete
  \/ WorkerPoll
  \/ WorkerGetLogs
  \/ WorkerComplete

SpecRelayer == InitRelayer /\ [][NextRelayer]_vars

\* The worker on its own schedule, no listener registered: the timer of
\* setInterval keeps firing, and for every swap the passes that wait for a
\* ledger on its behalf get the answer, again and again with success (the
\* RPC call returns the logs, the counterpart submission is confirmed).
NextWorker ==
  \/ InitiateHtlc
  \/ DeleteMapping
  \/ AtomicSwapCompleted
  \/ WorkerPoll
  \/ WorkerGetLogs
  \/ WorkerComplete

\* the i-th pass in progress is working on swapId
WorksOn(i, swapId) == i \in 1..Len(passes) /\ Head(passes[i].keys) = swapId

WorkerFairness ==
  /\ WF_vars(WorkerPoll)
  /\ \A i \in 1..MaxPasses, swapId \in SwapIds :
       /\ SF_vars(WorksOn(i, swapId) /\ WorkerGetLogsAt(i, TRUE))
       /\ SF_vars(WorksOn(i, swapId) /\ WorkerCompleteAt(i, TRUE))

SpecWorker == InitRelayer /\ [][NextWorker]_vars /\ WorkerFairness

\* ------------------------------------------- ledgers that may not answer
\* The relayer with what its own runtime guarantees: the interval timer of
\* the worker keeps firing.  A task suspended on getTransaction, getLogs or
\* completeSolanaHTLC resumes only when the ledger answers or fails, and no
\* timer of the relayer stands behind these calls, so nothing is assumed of
\* the steps that resume a task.
TimerFairness == WF_vars(WorkerPoll)

SpecUnanswered == InitRelayer /\ [][NextRelayer]_vars /\ TimerFairness

\* ------------------------------------------------- re-entering tokens
\* A token may call back into the contract from inside transfer (a hook of
\* the token, or of the recipient).  The calls that write their storage
\* before they pay out are split at their transfers: EnterCall runs the call
\* up to its first safeTransfer, Reenter is a call of the contract made from
\* inside the transfer in progress, TransferReturns ends that transfer and
\* runs the call to its next transfer or to its end.

\* variant: the modifier is missing
nonReentrant_Absent(r, w) == r

\* modifier nonReentrant: the call reverts when _status is ENTERED
nonReentrant(r, w) ==
  IF reentrancy.status = "ENTERED"
  THEN Revert(w, "ReentrancyGuardReentrantCall")
  ELSE r

\* the calls that pay out after writing their storage, with the arguments
\* explored: op, caller, swap id, pool tokens, shares, secret
PayingCalls ==
  {[op |-> "completeAtomicSwap", sender |-> u, id |-> i, pair |-> <<>>,
    shares |-> 0, secret |-> s] :
     u \in Users, i \in DOMAIN atomicSwaps, s \in Secrets}
  \cup
  {[op |-> "refundAtomicSwap", sender |-> u, id |-> i, pair |-> <<>>,
    shares |-> 0, secret |-> 0] : u \in Users, i \in DOMAIN atomicSwaps}
  \cup
  {[op |-> "removeLiquidity", sender |-> u, id |-> NoId, pair |-> p,
    shares |-> n, secret |-> 0] :
     u \in Users, p \in TokenPairs, n \in ShareAmounts}
  \cup
  {[op |-> "claimRewards", sender |-> u, id |-> NoId, pair |-> <<>>,
    shares |-> 0, secret |-> 0] : u \in Users}

\* the call as one transaction on world w
Outcome(c, w) ==
  CASE c.op = "completeAtomicSwap" ->
         completeAtomicSwap(w, c.sender, now, c.id, c.secret)
    [] c.op = "refundAtomicSwap" -> refundAtomicSwap(w, c.sender, now, c.id)
    [] c.op = "removeLiquidity" ->
         removeLiquidity(w, c.sender, c.pair[1], c.pair[2], c.shares)
    [] c.op = "claimRewards" -> claimRewards(w, c.sender)

\* the safeTransfer calls the call makes after its storage writes, in order
TransfersOf(c, w, r) ==
  CASE c.op = "completeAtomicSwap" ->
         <<[token |-> SwapAt(w.swaps, c.id).token,
            to |-> SwapAt(w.swaps, c.id).participant,
            amount |-> SwapAt(w.swaps, c.id).amount]>>
    [] c.op = "refundAtomicSwap" ->
         <<[token |-> SwapAt(w.swaps, c.id).token,
            to |-> SwapAt(w.swaps, c.id).initiator,
            amount |-> SwapAt(w.swaps, c.id).amount]>>
    [] c.op = "removeLiquidity" ->
         <<[token |-> w.pools[getPoolId(c.pair[1], c.pair[2])].tokenA,
            to |-> c.sender, amount |-> r.ret],
           [token |-> w.pools[getPoolId(c.pair[1], c.pair[2])].tokenB,
            to |-> c.sender, amount |-> r.ret2]>>
    [] c.op = "claimRewards" ->
         <<[token |-> rewardToken, to |-> c.sender, amount |-> r.ret]>>

\* a paying call passes its checks, writes its storage and is now inside its
\* first safeTransfer; the balances have not moved yet
EnterCall ==
  /\ reentrancy.status = "NOT_ENTERED"
  /\ calls < MaxCalls
  /\ \E c \in PayingCalls :
       LET r == nonReentrant(Outcome(c, World), World)
       IN /\ r.ok
          /\ pools' = r.w.pools
          /\ atomicSwaps' = r.w.swaps
          /\ players' = r.w.players
          /\ reentrancy' = [status |-> "ENTERED", op |-> c.op,
                            sender |-> c.sender, id |-> c.id,
                            transfers |-> TransfersOf(c, World, r),
                            snapshot |-> World]
          /\ last' = [NoCall EXCEPT !.op = "enter", !.sender = c.sender,
                                    !.id = c.id]
  /\ UNCHANGED <<balances, now, calls, quote, feeBasisPoints, relayerVars>>

\* the calls a token can make from inside a transfer, as any user
ReentrantCalls ==
  PayingCalls
  \cup
  {[op |-> "swap", sender |-> u, id |-> NoId, pair |-> p, shares |-> a,
    secret |-> 0] : u \in Users, p \in TokenPairs, a \in Amounts}
  \cup
  {[op |-> "addLiquidity", sender |-> u, id |-> NoId, pair |-> p,
    shares |-> a, secret |-> 0] :
     u \in Users, p \in TokenPairs, a \in Amounts}

ReentrantOutcome(c, w) ==
  CASE c.op = "swap" -> swap(w, c.sender, c.pair[1], c.pair[2], c.shares, 0)
    [] c.op = "addLiquidity" ->
         addLiquidity(w, c.sender, c.pair[1], c.pair[2], c.shares, DepositB)
    [] OTHER -> Outcome(c, w)

\* the token in the transfer in progress calls the contract; the call sees
\* the storage as written so far
Reenter ==
  /\ reentrancy.status = "ENTERED"
  /\ \E c \in ReentrantCalls :
       LET r == nonReentrant(ReentrantOutcome(c, World), World)
       IN /\ balances' = r.w.bal
          /\ pools' = r.w.pools
          /\ atomicSwaps' = r.w.swaps
          /\ players' = r.w.players
          /\ last' = [NoCall EXCEPT !.op = c.op, !.ok = r.ok, !.err = r.err,
                                    !.sender = ZERO]
  /\ UNCHANGED <<now, calls, quote, feeBasisPoints, reentrancy, relayerVars>>

\* the transfer in progress moves the tokens and returns: the call goes on
\* to its next transfer or ends; a transfer that fails reverts the whole
\* transaction
TransferReturns ==
  /\ reentrancy.status = "ENTERED"
  /\ LET t == Head(reentrancy.transfers)
         tr == safeTransfer(balances, t.token, DEX, t.to, t.amount)
     IN IF ~tr.ok
        THEN /\ balances' = reentrancy.snapshot.bal
             /\ pools' = reentrancy.snapshot.pools
             /\ atomicSwaps' = reentrancy.snapshot.swaps
             /\ players' = reentrancy.snapshot.players
             /\ reentrancy' = NotEntered
             /\ last' = [NoCall EXCEPT !.op = reentrancy.op, !.ok = FALSE,
                                       !.err = "ERC20InsufficientBalance",
                                       !.sender = ZERO]
             /\ UNCHANGED calls
        ELSE /\ balances' = tr.bal
             /\ UNCHANGED <<pools, atomicSwaps, players>>
             /\ IF Len(reentrancy.transfers) > 1
                THEN /\ reentrancy' = [reentrancy EXCEPT
                                         !.transfers = Tail(@)]
                     /\ last' = [NoCall EXCEPT !.op = "transfer"]
                     /\ UNCHANGED calls
                ELSE /\ reentrancy' = NotEntered
                     /\ calls' = calls + 1
                     /\ last' = [NoCall EXCEPT !.op = reentrancy.op,
                                               !.sender = reentrancy.sender,
                                               !.id = reentrancy.id,
                                               !.amount = t.amount]
  /\ UNCHANGED <<now, quote, feeBasisPoints, relayerVars>>

\* no call of the contract is in progress
NoCallInProgress == reentrancy.status = "NOT_ENTERED"

\* between transactions: blocks pass and the calls that set the scene are
\* made with tokens that do not call back
NextReentry ==
  \/ NoCallInProgress /\ Tick
  \/ NoCallInProgress /\ AddLiquidity
  \/ NoCallInProgress /\ PlayFizzCaps
  \/ NoCallInProgress /\ InitiateAtomicSwap
  \/ EnterCall
  \/ Reenter
  \/ TransferReturns

SpecReentry == Init /\ [][NextReentry]_vars

\* ------------------------------------------------------ the API on its own
\* Requests to the mutating routes with every credential, each answered
\* before the next arrives.
ApiStartListen == \E key \in ApiKeys : StartListenWith(key)
ApiSubmitSecret == \E key \in ApiKeys : SubmitSecretWith(key)
ApiInitiateHtlc == \E key \in ApiKeys : InitiateHtlcWith(key)
ApiCompleteHtlc == \E key \in ApiKeys : CompleteHtlcWith(key)
ApiDeleteMapping == \E key \in ApiKeys : DeleteMappingWith(key)

NextApi ==
  \/ ApiStartListen
  \/ ApiSubmitSecret
  \/ ApiInitiateHtlc
  \/ ApiCompleteHtlc
  \/ ApiDeleteMapping

SpecApi == InitRelayer /\ [][NextApi]_vars

\* ----------------------------------------------------- the rate limiter
\* process.env.RELAYER_RATE_LIMIT and the 60_000 ms window, scaled down; the
\* clock runs up to MaxTime and no caller is followed past MaxBurst counted
\* requests in one window
RATE_LIMIT == 2
Minute == 3
MaxTime == 7
MaxBurst == 3

\* rateMap.get(ip) || { count: 0, resetTs: now + 60_000 }
RateEntry(ip) ==
  IF ip \in DOMAIN rateMap THEN rateMap[ip]
  ELSE [count |-> 0, resetTs |-> dateNow + Minute]

\* the entry after the window test and the increment
Counted(ip) ==
  LET entry == RateEntry(ip)
      fresh == IF dateNow > entry.resetTs
               THEN [count |-> 0, resetTs |-> dateNow + Minute]
               ELSE entry
  IN  [fresh EXCEPT !.count = @ + 1]

\* the admission times of a caller that lie within the last minute
Recent(times, t) == SelectSeq(times, LAMBDA a : a > t - Minute)

\* GET /mappings from one address: the rate limiter, then the handler
RequestFrom(ip) ==
  LET entry == Counted(ip)
  IN  /\ entry.count <= MaxBurst
      /\ rateMap' = [a \in DOMAIN rateMap \cup {ip} |->
                       IF a = ip THEN entry ELSE rateMap[a]]
      /\ IF entry.count > RATE_LIMIT
         THEN /\ res' = [route |-> "/mappings", key |-> ip, status |-> 429,
                         id |-> ""]
              /\ UNCHANGED admitted
         ELSE /\ res' = [route |-> "/mappings", key |-> ip, status |-> 200,
                         id |-> ""]
              /\ admitted' = [admitted EXCEPT
                                ![ip] = Append(Recent(@, dateNow), dateNow)]
      /\ console' = <<>>
      /\ UNCHANGED <<contractVars, quote, feeBasisPoints, reentrancy, file, encrypted,
                     relayerMappings, listening, allowAuto, handler, passes,
                     evmCompleted, solanaCompleted, recorded, purged,
                     mappingsKey, dateNow, routing>>

Request == \E ip \in Ips : RequestFrom(ip)

\* a millisecond of the scaled clock passes
ClockTick ==
  /\ dateNow < MaxTime
  /\ dateNow' = dateNow + 1
  /\ admitted' = [ip \in Ips |-> Recent(admitted[ip], dateNow')]
  /\ res' = NoResponse
  /\ console' = <<>>
  /\ UNCHANGED <<contractVars, quote, feeBasisPoints, reentrancy, file, encrypted,
                 relayerMappings, listening, allowAuto, handler, passes,
                 evmCompleted, solanaCompleted, recorded, purged,
                 mappingsKey, rateMap, routing>>

NextRate == Request \/ ClockTick

SpecRate == InitRelayer /\ [][NextRate]_vars

\* --------------------------------------------------- the route aggregator
\* RouteAggregator.findBestRoute (relayer/src/route-aggregator.ts) over the
\* adapters of a MultiChainDEX, a Map keyed by chain id and listed in
\* insertion order.  A quote is the outputAmount its adapter answers, the
\* decimal string of a BigInt, read back with BigInt(): a natural number.
ChainIds == {"1", "137", "solana"}
Outputs == {90, 100, 250}

\* the sequences over S without repetition
Orderings(S) ==
  {s \in UNION {[1..n -> S] : n \in 0..Cardinality(S)} :
     \A i, j \in DOMAIN s : i # j => s[i] # s[j]}

Range(s) == {s[i] : i \in DOMAIN s}

\* variant: an entry goes in front of the entries with an equal output
insertResult_TiesLast(e, sorted) ==
  LET n == Cardinality({i \in DOMAIN sorted :
                          sorted[i].outputAmount > e.outputAmount})
  IN  SubSeq(sorted, 1, n) \o <<e>> \o SubSeq(sorted, n + 1, Len(sorted))

\* results.sort with the comparator of findBestRoute: larger outputAmount
\* first, equal outputs compare 0 and Array.prototype.sort is stable
insertResult(e, sorted) ==
  LET n == Cardinality({i \in DOMAIN sorted :
                          sorted[i].outputAmount >= e.outputAmount})
  IN  SubSeq(sorted, 1, n) \o <<e>> \o SubSeq(sorted, n + 1, Len(sorted))

RECURSIVE sortResults(_)
sortResults(results) ==
  IF results = <<>> THEN <<>>
  ELSE insertResult(results[Len(results)],
                    sortResults(SubSeq(results, 1, Len(results) - 1)))

\* the loop is over: sort, return results[0] || null (<<>> stands for null)
ReturnBest(r) ==
  LET sorted == sortResults(r.results)
  IN  [r EXCEPT !.pc = "done",
                !.results = sorted,
                !.best = IF sorted = <<>> THEN <<>> ELSE <<sorted[1]>>]

\* the for loop reaches its next await adapter.getSwapQuote, or ends
AskNext(r) ==
  IF r.pending = <<>> THEN ReturnBest(r)
  ELSE [r EXCEPT !.pc = "others", !.asked = Append(@, Head(r.pending))]

\* results.push of an answered quote; a call that threw is ignored
PushResult(r, chain, route, answered, outputAmount) ==
  IF ~answered THEN r
  ELSE LET e == [chain |-> chain, outputAmount |-> outputAmount,
                 route |-> route]
       IN  [r EXCEPT !.results = Append(@, e), !.seen = Append(@, e)]

\* the aggregator touches nothing but its own call
RouteStep ==
  UNCHANGED <<contractVars, quote, feeBasisPoints, reentrancy, file, relayerMappings,
              listening, allowAuto, handler, passes, evmCompleted,
              solanaCompleted, recorded, purged, encrypted, mappingsKey,
              console, res, rateMap, dateNow, admitted>>

\* findBestRoute(inputChain, ...) is called on a dex with the given adapters
\* and runs to its first await: the quote of the input chain or, where
\* getAdapter(inputChain) throws, the first of the other chains
FindBestRoute ==
  /\ routing.pc = "none"
  /\ \E adapters \in Orderings(ChainIds), inputChain \in ChainIds :
       LET r == [routing EXCEPT
                   !.inputChain = inputChain,
                   !.adapters = adapters,
                   !.pending = SelectSeq(adapters,
                                         LAMBDA c : c # inputChain)]
       IN  routing' = IF inputChain \in Range(adapters)
                      THEN [r EXCEPT !.pc = "same-chain",
                                     !.asked = <<inputChain>>]
                      ELSE AskNext(r)
  /\ RouteStep

\* the adapter of the input chain answers, or its call throws
SameChainQuote ==
  /\ routing.pc = "same-chain"
  /\ \E answered \in BOOLEAN, outputAmount \in Outputs :
       routing' = AskNext(PushResult(routing, routing.inputChain,
                                     <<routing.inputChain>>,
                                     answered, outputAmount))
  /\ RouteStep

\* the adapter of another chain answers, or its call throws
OtherChainQuote ==
  /\ routing.pc = "others"
  /\ \E answered \in BOOLEAN, outputAmount \in Outputs :
       LET chain == Head(routing.pending)
           r == [routing EXCEPT !.pending = Tail(@)]
       IN  routing' = AskNext(PushResult(r, chain,
                                         <<routing.inputChain, chain>>,
                                         answered, outputAmount))
  /\ RouteStep

NextRoute == FindBestRoute \/ SameChainQuote \/ OtherChainQuote

SpecRoute == InitRelayer /\ [][NextRoute]_vars

\* ------------------------------------------------- the store and restarts
\* The container is started by docker-entrypoint.sh: where the store file is
\* missing, init-mappings.js writes the empty store first, as iv:ciphertext
\* when RELAYER_MAPPINGS_KEY is set.  The worker is the one that encrypts
\* what it saves under the key.
InitStore ==
  /\ Constructed(InitialHolding)
  /\ quote = NoQuote
  /\ feeBasisPoints = LargestFeeBasisPoints
  /\ \E auto \in BOOLEAN, key \in BOOLEAN : RelayerStartedWith(auto, key, key)

\* the process is restarted: module start-up runs loadMappings(), which
\* assigns JSON.parse of the file to the object, or logs the failure and
\* leaves the object empty; listeners, passes in progress and the rate
\* limiter's counters are gone with the old process
Restart ==
  /\ relayerMappings' = IF encrypted THEN <<>> ELSE file
  /\ console' = IF encrypted
                 THEN <<Line("[Relayer] Failed to load mappings", <<"error">>)>>
                 ELSE <<Line("[Relayer] Loaded", <<"count">>)>>
  /\ listening' = FALSE
  /\ handler' = [id \in SwapIds |-> "idle"]
  /\ passes' = <<>>
  /\ rateMap' = [ip \in {} |-> 0]
  /\ res' = NoResponse
  /\ UNCHANGED <<file, encrypted, evmCompleted, solanaCompleted, recorded,
                 purged, contractVars, quote, feeBasisPoints, reentrancy, allowAuto,
                 mappingsKey, dateNow, admitted, routing>>

NextStore ==
  \/ InitiateHtlc
  \/ DeleteMapping
  \/ AtomicSwapCompleted
  \/ WorkerPoll
  \/ WorkerGetLogs
  \/ WorkerComplete
  \/ Restart

SpecStore == InitStore /\ [][NextStore]_vars

\* ================================================================ claims
\* shorthands over one step of the contract
IsCall(l, op) == l.op = op
Completes(l) == l.op = "completeAtomicSwap"
Refunds(l) == l.op = "refundAtomicSwap"
Initiates(l) == l.op = "initiateAtomicSwap"
StorageUnchanged ==
  /\ balances' = balances
  /\ pools' = pools
  /\ atomicSwaps' = atomicSwaps
  /\ players' = players

\* ---------------------------------------------------------------- C1
\* C1: a swap record is never both completed and refunded, a record never
\* disappears, and the only change a record ever undergoes is
\* Created -> Completed or Created -> Refunded (terminal states are final).
C1_OnlyCreatedToTerminal ==
  [][\A id \in DOMAIN atomicSwaps :
       /\ id \in DOMAIN atomicSwaps'
       /\ ~(atomicSwaps'[id].completed /\ atomicSwaps'[id].refunded)
       /\ atomicSwaps'[id] # atomicSwaps[id] =>
            /\ Created(atomicSwaps[id])
            /\ \/ atomicSwaps'[id] = [atomicSwaps[id] EXCEPT !.completed = TRUE]
               \/ atomicSwaps'[id] = [atomicSwaps[id] EXCEPT !.refunded = TRUE]]_vars

\* a refund was rejected on a swap that is already completed
C1_Witness ==
  /\ Refunds(last) /\ ~last.ok /\ last.err = "Already completed"
  /\ last.id \in DOMAIN atomicSwaps
  /\ atomicSwaps[last.id].completed
  /\ now > atomicSwaps[last.id].timelock

\* ---------------------------------------------------------------- C2
\* C2: on a Created swap, complete by the participant with the preimage at a
\* time <= T succeeds and the contract sends exactly the recorded amount to
\* the participant, refund by the initiator at a time > T succeeds and sends
\* exactly the recorded amount to the initiator, and every complete or
\* refund on a swap that is already Completed or Refunded fails and moves no
\* funds.
C2_Sends(token, to, amount) ==
  /\ balances[token][DEX] - balances'[token][DEX] = amount
  /\ (balances'[token][to] - balances[token][to])
       + (balances'[token][FeeReceiver] - balances[token][FeeReceiver]) = amount
  /\ \A h \in Holders \ {DEX, to, FeeReceiver} :
       balances'[token][h] = balances[token][h]

C2_ReleasedExactlyOnce ==
  [][\A id \in DOMAIN atomicSwaps :
       LET s == atomicSwaps[id] IN
       /\ ( /\ Completes(last') /\ last'.id = id /\ last'.sender = s.participant
            /\ Created(s) /\ now <= s.timelock
            /\ keccak256(last'.secret) = s.secretHash )
            => /\ last'.ok
               /\ atomicSwaps'[id].completed
               /\ C2_Sends(s.token, s.participant, s.amount)
       /\ ( /\ Refunds(last') /\ last'.id = id /\ last'.sender = s.initiator
            /\ Created(s) /\ now > s.timelock )
            => /\ last'.ok
               /\ atomicSwaps'[id].refunded
               /\ C2_Sends(s.token, s.initiator, s.amount)
       /\ ( /\ Completes(last') \/ Refunds(last')
            /\ last'.id = id /\ ~Created(s) )
            => ~last'.ok /\ StorageUnchanged]_vars

\* ---------------------------------------------------------------- C3
\* C3: on a Created swap with timelock T, complete fails at every time > T
\* and refund fails at every time <= T (at time = T only complete can
\* succeed); a failed complete or refund changes no swap record and no
\* balance.
C3_TimelockSplitsCompleteAndRefund ==
  [][/\ \A id \in DOMAIN atomicSwaps :
          LET s == atomicSwaps[id] IN
          /\ (Completes(last') /\ last'.id = id /\ Created(s) /\ now > s.timelock)
               => ~last'.ok
          /\ (Refunds(last') /\ last'.id = id /\ Created(s) /\ now <= s.timelock)
               => ~last'.ok
     /\ ((Completes(last') \/ Refunds(last')) /\ ~last'.ok) => StorageUnchanged]_vars

\* the initiator asked for the refund exactly at the timelock and was refused
C3_Witness ==
  /\ Refunds(last) /\ ~last.ok /\ last.err = "Timelock not expired"
  /\ last.id \in DOMAIN atomicSwaps
  /\ Created(atomicSwaps[last.id])
  /\ last.sender = atomicSwaps[last.id].initiator
  /\ now = atomicSwaps[last.id].timelock

\* ---------------------------------------------------------------- C4
\* C4: complete with a preimage whose hash differs from the recorded
\* secretHash fails even for the participant on a Created swap in time; the
\* swap stays Created, no balance moves, and a complete with the right
\* preimage that would have succeeded before the failed call still succeeds
\* after it.
C4_WrongSecretRejected ==
  [][\A id \in DOMAIN atomicSwaps :
       LET s == atomicSwaps[id] IN
       ( /\ Completes(last') /\ last'.id = id /\ last'.sender = s.participant
         /\ Created(s) /\ now <= s.timelock
         /\ keccak256(last'.secret) # s.secretHash )
       => /\ ~last'.ok /\ last'.err = "Invalid secret"
          /\ StorageUnchanged
          /\ Created(atomicSwaps'[id])
          /\ \A x \in Secrets :
               completeAtomicSwap(World, s.participant, now, id, x).ok
                 => completeAtomicSwap(World', s.participant, now', id, x).ok]_vars

\* the participant was refused with a wrong preimage and can still complete
C4_Witness ==
  /\ Completes(last) /\ ~last.ok /\ last.err = "Invalid secret"
  /\ last.id \in DOMAIN atomicSwaps
  /\ Created(atomicSwaps[last.id])
  /\ \E x \in Secrets :
       completeAtomicSwap(World, atomicSwaps[last.id].participant, now,
                          last.id, x).ok

\* ---------------------------------------------------------------- C5
\* C5: complete succeeds only for the recorded participant and refund only
\* for the recorded initiator; a call by anyone else, also on an id that was
\* never initiated, fails and changes nothing.
C5_OnlyRecordedParties ==
  [][/\ (Completes(last') /\ last'.sender # SwapAt(atomicSwaps, last'.id).participant)
          => ~last'.ok /\ StorageUnchanged
     /\ (Refunds(last') /\ last'.sender # SwapAt(atomicSwaps, last'.id).initiator)
          => ~last'.ok /\ StorageUnchanged]_vars

\* the initiator, who knows the preimage, tried to complete a Created swap
C5_Witness ==
  /\ Completes(last) /\ ~last.ok /\ last.err = "Not the participant"
  /\ last.id \in DOMAIN atomicSwaps
  /\ Created(atomicSwaps[last.id])
  /\ last.sender = atomicSwaps[last.id].initiator
  /\ keccak256(last.secret) = atomicSwaps[last.id].secretHash
  /\ now <= atomicSwaps[last.id].timelock

\* ---------------------------------------------------------------- C6
\* C6: every successful initiateAtomicSwap has timelock > current time and
\* amount > 0, and a failed initiateAtomicSwap creates no record and moves no
\* funds.
C6_InitiateNeedsFutureTimelockAndAmount ==
  [][Initiates(last') =>
       /\ last'.ok => (last'.id[6] > now /\ last'.amount > 0)
       /\ ~last'.ok => StorageUnchanged]_vars

\* an initiate whose timelock is the current block time was refused
C6_Witness ==
  /\ Initiates(last) /\ ~last.ok /\ last.err = "Invalid timelock"
  /\ now \in Timelocks

C8_StoredIsReceived ==
  /\ (Initiates(last') /\ last'.ok) =>
       LET rec == atomicSwaps'[last'.id] IN
       /\ rec.amount = balances'[rec.token][DEX] - balances[rec.token][DEX]
       /\ last'.id[4] = rec.amount
       /\ last'.ret = rec.amount
       /\ rec.amount <= last'.amount
  /\ ((Completes(last') \/ Refunds(last')) /\ last'.ok) =>
       LET s == atomicSwaps[last'.id] IN
       balances[s.token][DEX] - balances'[s.token][DEX] = s.amount

C9_SharesIffReserves ==
  \A p \in PoolIds :
    pools[p].totalShares > 0 <=> (pools[p].reserveA > 0 /\ pools[p].reserveB > 0)

\* a pool that held liquidity was emptied by removing all shares
C9_Witness ==
  /\ last.op = "removeLiquidity" /\ last.ok /\ last.amount > 0
  /\ pools[last.id].tokenA # ZERO
  /\ pools[last.id].totalShares = 0
  /\ pools[last.id].reserveA = 0 /\ pools[last.id].reserveB = 0

\* ---------------------------------------------------------------- C10
\* C10: every successful swap pays out less than the output reserve it
\* found, and the reserve product after it is at least the product before.
C10_SwapKeepsProduct ==
  [][(last'.op = "swap" /\ last'.ok) =>
       LET before == pools[last'.id]
           after == pools'[last'.id]
           reserveOut == IF last'.token = before.tokenA
                         THEN before.reserveB ELSE before.reserveA
       IN /\ last'.ret < reserveOut
          /\ after.reserveA > 0 /\ after.reserveB > 0
          /\ after.reserveA * after.reserveB
               >= before.reserveA * before.reserveB]_vars

\* a swap paid out a positive amount
C10_Witness ==
  /\ last.op = "swap" /\ last.ok /\ last.ret > 0
  /\ pools[last.id].reserveA > 0 /\ pools[last.id].reserveB > 0

\* ---------------------------------------------------------------- C11
\* the reserve a pool record holds for one of its two tokens
ReserveOf(pool, token) ==
  IF token = pool.tokenA THEN pool.reserveA ELSE pool.reserveB

\* the other token of a pool
OtherToken(pool, token) ==
  IF token = pool.tokenA THEN pool.tokenB ELSE pool.tokenA

\* C11: for every successful swap, with actualReceived the contract's
\* balance increase of the input token and reserveIn / reserveOut the
\* reserves of the input / output token before the call, amountOut =
\* floor(actualReceived * 997 * reserveOut / (reserveIn * 1000 +
\* actualReceived * 997)); afterwards the input reserve has grown by
\* actualReceived and the output reserve has shrunk by amountOut, whichever
\* pool token is the input.
C11_SwapFormulaAndReserves ==
  [][(last'.op = "swap" /\ last'.ok) =>
       LET before == pools[last'.id]
           after == pools'[last'.id]
           tokenIn == last'.token
           tokenOut == OtherToken(before, tokenIn)
           reserveIn == ReserveOf(before, tokenIn)
           reserveOut == ReserveOf(before, tokenOut)
           actualReceived == balances'[tokenIn][DEX] - balances[tokenIn][DEX]
           amountOut == last'.ret
       IN /\ tokenIn \in {before.tokenA, before.tokenB}
          /\ actualReceived > 0
          /\ amountOut = (actualReceived * 997 * reserveOut)
                            \div (reserveIn * 1000 + actualReceived * 997)
          /\ ReserveOf(after, tokenIn) = reserveIn + actualReceived
          /\ ReserveOf(after, tokenOut) = reserveOut - amountOut
          /\ balances[tokenOut][DEX] - balances'[tokenOut][DEX] = amountOut]_vars

\* a swap whose input is the pool's second token paid out a positive amount
\* and left the pool with unequal reserves
C11_Witness ==
  /\ last.op = "swap" /\ last.ok /\ last.ret > 0
  /\ last.token = pools[last.id].tokenB
  /\ pools[last.id].reserveA # pools[last.id].reserveB

\* ---------------------------------------------------------------- C12
\* pairwise coprime moduli whose product exceeds every product of the quote
QuoteModuli == {9941, 9949, 9967, 9973}

\* q and r are the quotient and remainder of a * b by c: 0 <= r < c and
\* a * b = q * c + r, the equation checked modulo each of QuoteModuli
ExactQuotient(a, b, c, q, r) ==
  /\ 0 <= r /\ r < c /\ q >= 0
  /\ \A m \in QuoteModuli :
       ((a % m) * (b % m)) % m = ((q % m) * (c % m) + (r % m)) % m

\* the input and reserves of the worked example
C12_IsExample ==
  /\ quote.done
  /\ quote.amountIn = 1000
  /\ quote.reserveIn = 1000000 /\ quote.reserveOut = 1000000

\* C12 (as stated): with reserves (1,000,000, 1,000,000) and an actually
\* received input of 1,000 the output is 994.
C12_ExampleIs994 == C12_IsExample => quote.amountOut = 994

\* C12 (amended): every computed output is the exact floor of
\* amountIn * 997 * reserveOut / (reserveIn * 1000 + amountIn * 997), and
\* with reserves (1,000,000, 1,000,000) and an actually received input of
\* 1,000 that output is 996.
C12_ExampleIs996 ==
  /\ quote.done =>
       ExactQuotient(quote.amountIn * 997, quote.reserveOut,
                     quote.reserveIn * 1000 + quote.amountIn * 997,
                     quote.amountOut, quote.remainder)
  /\ C12_IsExample => quote.amountOut = 996

\* the output of the worked example has been computed
C12_Witness == C12_IsExample /\ quote.amountOut > 0

Measured(token) == balances'[token][DEX] - balances[token][DEX]

\* C14: a successful addLiquidity raises each reserve by exactly the
\* contract's measured balance increase of that token, and a successful swap
\* raises the input reserve by, computes its output from, and reports as
\* amountIn, the measured increase of the input token; so where the transfer
\* delivered less than the nominal amount the nominal amount is not what is
\* accounted.  With the 1% fee a nominal deposit of 1,000 raises the reserve
\* by 990 and a nominal swap input of 100 is accounted as 99.
C14_ReservesGrowByMeasuredAmount ==
  [][/\ (last'.op = "addLiquidity" /\ last'.ok) =>
          LET before == pools[last'.id]
              after == pools'[last'.id]
          IN /\ after.reserveA = before.reserveA + Measured(after.tokenA)
             /\ after.reserveB = before.reserveB + Measured(after.tokenB)
             /\ (last'.token = FEE /\ Measured(FEE) < last'.amount) =>
                  ReserveOf(after, FEE) # ReserveOf(before, FEE) + last'.amount
             /\ ( /\ feeBasisPoints = OnePercentFeeBasisPoints
                  /\ last'.token = FEE /\ last'.amount = 1000 ) =>
                  ReserveOf(after, FEE) = ReserveOf(before, FEE) + 990
     /\ (last'.op = "swap" /\ last'.ok) =>
          LET before == pools[last'.id]
              after == pools'[last'.id]
              tokenIn == last'.token
              tokenOut == OtherToken(before, tokenIn)
          IN /\ ReserveOf(after, tokenIn)
                  = ReserveOf(before, tokenIn) + Measured(tokenIn)
             /\ last'.ret2 = Measured(tokenIn)
             /\ last'.ret = getAmountOut(Measured(tokenIn),
                                         ReserveOf(before, tokenIn),
                                         ReserveOf(before, tokenOut))
             /\ ( /\ feeBasisPoints = OnePercentFeeBasisPoints
                  /\ tokenIn = FEE /\ last'.amount = 100 ) =>
                  /\ Measured(FEE) = 99
                  /\ ReserveOf(after, FEE) = ReserveOf(before, FEE) + 99]_vars

\* with the 1% token, a nominal 1,000 was deposited (reserve 990) and then
\* a nominal 100 swapped in and accounted as 99
C14_Witness ==
  /\ feeBasisPoints = OnePercentFeeBasisPoints
  /\ last.op = "swap" /\ last.ok
  /\ last.token = FEE /\ last.amount = 100 /\ last.ret2 = 99
  /\ ReserveOf(pools[last.id], FEE) = 990 + 99

\* ---------------------------------------------------------------- C15
\* r is the integer square root of y
IsFloorSqrt(r, y) == r >= 0 /\ r * r <= y /\ y < (r + 1) * (r + 1)

\* C15: a successful addLiquidity into a pool with totalShares = 0 received
\* a > 0 and b > 0 and mints to the caller exactly the integer square root
\* of a * b, and the contract's sqrt is the integer square root on every
\* input of the explored range.
C15_FirstDepositMintsSqrt ==
  [][(last'.op = "addLiquidity" /\ last'.ok
        /\ pools[last'.id].totalShares = 0) =>
       LET after == pools'[last'.id]
           a == Measured(after.tokenA)
           b == Measured(after.tokenB)
       IN /\ a > 0 /\ b > 0
          /\ IsFloorSqrt(last'.ret, a * b)
          /\ after.totalShares = last'.ret
          /\ after.shares[last'.sender]
               = pools[last'.id].shares[last'.sender] + last'.ret
          /\ \A y \in 0..(MaxAmount * MaxAmount) : IsFloorSqrt(sqrt(y), y)]_vars

\* a first deposit whose product is not a square minted the rounded-down root
C15_Witness ==
  /\ last.op = "addLiquidity" /\ last.ok
  /\ pools[last.id].totalShares = last.ret
  /\ pools[last.id].shares[last.sender] = last.ret
  /\ last.ret * last.ret < pools[last.id].reserveA * pools[last.id].reserveB

\* ---------------------------------------------------------------- C16
\* what the contract would measure when pulling amount of token from sender
Received(token, sender, amount) ==
  safeTransferFrom(balances, token, sender, DEX, amount).bal[token][DEX]
    - balances[token][DEX]

\* min(floor(a * totalShares / reserveA), floor(b * totalShares / reserveB))
ProRataShares(pool, a, b) ==
  LET sA == (a * pool.totalShares) \div pool.reserveA
      sB == (b * pool.totalShares) \div pool.reserveB
  IN IF sA < sB THEN sA ELSE sB

\* C16: a successful addLiquidity into a pool with totalShares > 0 mints to
\* the caller exactly min(floor(a * totalShares / reserveA), floor(b *
\* totalShares / reserveB)) for the received a and b, more than zero, and
\* adds a and b in full to the reserves; a deposit whose received amounts
\* give 0 fails with "Insufficient liquidity minted", and a deposit refused
\* with that message leaves pools and balances unchanged.
C16_LaterDepositMintsProRata ==
  [][/\ (last'.op = "addLiquidity" /\ last'.ok
           /\ pools[last'.id].totalShares > 0) =>
          LET before == pools[last'.id]
              after == pools'[last'.id]
              a == Measured(after.tokenA)
              b == Measured(after.tokenB)
              minted == ProRataShares(before, a, b)
          IN /\ last'.ret = minted /\ minted > 0
             /\ after.totalShares = before.totalShares + minted
             /\ \A u \in Users :
                  after.shares[u] = before.shares[u]
                                      + (IF u = last'.sender THEN minted ELSE 0)
             /\ after.reserveA = before.reserveA + a
             /\ after.reserveB = before.reserveB + b
     /\ (last'.op = "addLiquidity" /\ ~last'.ok
           /\ last'.err = "Insufficient liquidity minted") => StorageUnchanged
     /\ (last'.op = "addLiquidity" /\ ~last'.ok /\ last'.id # NoId) =>
          LET pool == pools[getPoolId(FEE, FIZZ)]
              a == Received(FEE, last'.sender, last'.id[1])
              b == Received(FIZZ, last'.sender, last'.id[2])
              worthless == /\ pool.totalShares > 0 /\ a > 0 /\ b > 0
                           /\ ProRataShares(pool, a, b) = 0
          IN last'.err = "Insufficient liquidity minted" <=> worthless]_vars

\* a second provider was minted shares next to the first one's
C16_Witness ==
  /\ last.op = "addLiquidity" /\ last.ok /\ last.ret > 0
  /\ pools[last.id].totalShares > last.ret
  /\ pools[last.id].shares[last.sender] = last.ret

\* ---------------------------------------------------------------- C17
\* the last call was a deposit into an empty pool: its caller holds all shares
AfterFirstDeposit ==
  /\ last.op = "addLiquidity" /\ last.ok
  /\ pools[last.id].totalShares = last.ret
  /\ pools[last.id].shares[last.sender] = last.ret

\* C17: right after a deposit into an empty pool, removeLiquidity of all
\* minted shares by the depositor succeeds, returns exactly the two reserves
\* the deposit created (the amounts the pool received) and leaves the pool
\* with reserveA = reserveB = totalShares = 0; the withdrawals the
\* depositor makes behave so.
C17_WithdrawAllReturnsDeposit ==
  [][AfterFirstDeposit =>
       LET pool == pools[last.id]
           r == removeLiquidity(World, last.sender, pool.tokenA, pool.tokenB,
                                last.ret)
           left == r.w.pools[last.id]
       IN /\ r.ok
          /\ r.ret = pool.reserveA /\ r.ret2 = pool.reserveB
          /\ pool.reserveA > 0 /\ pool.reserveB > 0
          /\ left.reserveA = 0 /\ left.reserveB = 0 /\ left.totalShares = 0
          /\ ( /\ last'.op = "removeLiquidity" /\ last'.ok
               /\ last'.sender = last.sender /\ last'.amount = last.ret ) =>
               /\ last'.ret = pool.reserveA /\ last'.ret2 = pool.reserveB
               /\ balances[pool.tokenA][DEX] - balances'[pool.tokenA][DEX]
                    = pool.reserveA
               /\ balances[pool.tokenB][DEX] - balances'[pool.tokenB][DEX]
                    = pool.reserveB
               /\ pools'[last.id].reserveA = 0 /\ pools'[last.id].reserveB = 0
               /\ pools'[last.id].totalShares = 0]_vars

\* a provider took out everything and was paid two different amounts
C17_Witness ==
  /\ last.op = "removeLiquidity" /\ last.ok
  /\ last.amount > 0 /\ last.ret > 0 /\ last.ret2 > last.ret
  /\ pools[last.id].totalShares = 0
  /\ pools[last.id].reserveA = 0 /\ pools[last.id].reserveB = 0

\* ---------------------------------------------------------------- C18
\* the shares argument of the removeLiquidity call of the step
C18_Shares == IF last'.ok THEN last'.amount ELSE last'.id[1]

\* the call of the step is a removeLiquidity whose arguments are known
C18_IsRemove ==
  last'.op = "removeLiquidity" /\ (last'.ok \/ last'.id # NoId)

\* the step paid floor(shares * reserve / totalShares) of each token and
\* took the shares and the amounts paid off the pool in the same call
C18_PaidProRata ==
  LET pid == getPoolId(FEE, FIZZ)
      pool == pools[pid]
      after == pools'[pid]
      shares == C18_Shares
      amountA == (shares * pool.reserveA) \div pool.totalShares
      amountB == (shares * pool.reserveB) \div pool.totalShares
  IN /\ last'.ok
     /\ last'.ret = amountA /\ last'.ret2 = amountB
     /\ balances[pool.tokenA][DEX] - balances'[pool.tokenA][DEX] = amountA
     /\ balances[pool.tokenB][DEX] - balances'[pool.tokenB][DEX] = amountB
     /\ after.totalShares = pool.totalShares - shares
     /\ after.reserveA = pool.reserveA - amountA
     /\ after.reserveB = pool.reserveB - amountB
     /\ \A u \in Users :
          after.shares[u] = pool.shares[u]
                              - (IF u = last'.sender THEN shares ELSE 0)

C19_TokenOrderIrrelevant ==
  [][/\ \A a \in Tokens, b \in Tokens : getPoolId(a, b) = getPoolId(b, a)
     /\ (last'.op = "addLiquidity" /\ last'.ok) =>
          LET a == last'.token
              b == CHOOSE t \in Tokens : t # a
              q == addLiquidity(World, last'.sender, b, a, DepositB,
                                last'.amount)
              pid == getPoolId(a, b)
          IN /\ q.ok /\ q.id = pid /\ last'.id = pid
             /\ q.w.pools = pools' /\ q.w.bal = balances'
             /\ q.ret = last'.ret
             /\ \A p \in PoolIds \ {pid} : pools'[p] = pools[p]
             /\ \A t \in Tokens :
                  ReserveOf(pools'[pid], t) - ReserveOf(pools[pid], t)
                    = Measured(t)]_vars

\* liquidity given as (FIZZ, FEE) sits in the record of (FEE, FIZZ), the
\* FIZZ amount in the FIZZ reserve
C19_Witness ==
  /\ last.op = "addLiquidity" /\ last.ok /\ last.token = FIZZ
  /\ last.id = getPoolId(FEE, FIZZ)
  /\ pools[last.id].tokenA = FEE /\ pools[last.id].tokenB = FIZZ
  /\ pools[last.id].reserveB = last.amount
  /\ pools[last.id].reserveA # pools[last.id].reserveB

\* ---------------------------------------------------------------- C20
\* C20: in every reachable state of the relayer, under every interleaving
\* of the API requests, the live completion handler and the worker passes,
\* each entry recorded by initiate-counterpart is in the persisted store
\* unless its counterpart has been completed or it has been purged.
C20_NoLostUpdate ==
  \A id \in recorded :
    id \in Keys(file) \/ id \in solanaCompleted \/ id \in purged

\* ---------------------------------------------------------------- C21
\* a step of the relayer's own tasks: the completion handler or a worker
\* pass moved
OwnTaskStep == handler' # handler \/ passes' # passes

\* C21: with auto-completion disabled, no step of the completion handler or
\* of a worker pass submits a counterpart completion or changes the mapping
\* store, in memory or on disk.
C21_OnlyWhenAutoCompleteEnabled ==
  [][(~allowAuto /\ OwnTaskStep) =>
        /\ solanaCompleted' = solanaCompleted
        /\ file' = file
        /\ relayerMappings' = relayerMappings]_vars

\* ---------------------------------------------------------------- C22
\* the mapping store, in memory and on disk
Store == <<relayerMappings, file, encrypted>>

\* the completion handler of swapId resumes from its counterpart submission
Resumes(swapId) ==
  handler[swapId] = "completeSolanaHTLC" /\ handler'[swapId] = "idle"

\* C22: a step of the live completion handler changes the mapping store
\* only when it resumes from a counterpart submission that succeeded, with
\* auto-completion enabled, and then it deletes that swap's entry and saves
\* the object; when the submission failed (the handler logs the error) the
\* store and the counterpart ledger are left as they were.
C22_DeletedOnlyAfterSuccess ==
  [][(handler' # handler) =>
       /\ (Store' # Store) =>
            \E swapId \in SwapIds :
              /\ Resumes(swapId) /\ allowAuto
              /\ swapId \in solanaCompleted'
              /\ relayerMappings' = Delete(relayerMappings, swapId)
              /\ file' = relayerMappings'
       /\ \A swapId \in SwapIds :
            Resumes(swapId) =>
              IF console' = <<>>
              THEN /\ swapId \in solanaCompleted'
                   /\ swapId \notin Keys(relayerMappings')
                   /\ file' = relayerMappings'
              ELSE /\ Store' = Store
                   /\ solanaCompleted' = solanaCompleted]_vars

\* a submission of the handler failed and the entry is still in the store,
\* in memory and on disk, for the next pass
C22_Witness ==
  /\ console = <<Line("[Relayer] Error handling AtomicSwapCompleted:",
                      <<"error">>)>>
  /\ \E swapId \in SwapIds :
       /\ evmCompleted = {swapId} /\ handler[swapId] = "idle"
       /\ swapId \in Keys(relayerMappings) /\ swapId \in Keys(file)
       /\ swapId \notin solanaCompleted

\* ---------------------------------------------------------------- C23
\* a worker step that logged a failed attempt
FailedAttempt ==
  /\ passes' # passes
  /\ console' # <<>>
  /\ console'[1].msg = "[Worker] error checking logs for swap"

\* C23: a reconciliation attempt that fails leaves the store file as it was,
\* and, provided the ledger calls of the passes keep succeeding, every entry
\* that is in the store file while its originating swap is completed has its
\* counterpart completed eventually, unless it is purged.
C23_AtLeastOnce ==
  /\ [][FailedAttempt => (file' = file /\ encrypted' = encrypted)]_vars
  /\ \A id \in SwapIds :
       (id \in Keys(file) /\ id \in evmCompleted)
         ~> (id \in solanaCompleted \/ id \in purged)

\* ---------------------------------------------------------------- C24
\* a worker pass found the completion of swapId in the logs and sends the
\* counterpart completion (it logs the find just before)
WorkerSubmits(swapId) ==
  /\ passes' # passes
  /\ console' = <<Line("[Worker] found preimage for", <<swapId>>)>>

\* C24: no reconciliation pass sends a completion for a counterpart that is
\* already completed, and a pass that resumes from a submission for such a
\* counterpart leaves the counterpart ledger as it was.
C24_NoDuplicateSubmission ==
  [][\A swapId \in SwapIds :
       /\ WorkerSubmits(swapId) => swapId \notin solanaCompleted
       /\ (passes' # passes /\ swapId \in solanaCompleted)
            => solanaCompleted' = solanaCompleted]_vars

\* ---------------------------------------------------------------- C25
\* C25: at every moment at most one reconciliation pass is in progress.
C25_NoOverlappingPasses == Len(passes) <= 1

\* ---------------------------------------------------------------- C26
\* the step is a restart of the process (loadMappings logs its outcome)
Restarted ==
  /\ console' # <<>>
  /\ console'[1].msg \in {"[Relayer] Loaded", "[Relayer] Failed to load mappings"}

\* C26: after every restart the coordinator's store holds exactly the
\* entries of the store file, whether the file was last written as JSON or
\* encrypted under the operator's key.
C26_StoreSurvivesRestart ==
  [][Restarted => relayerMappings' = file]_vars

\* ---------------------------------------------------------------- C27
\* C27: no line the relayer writes to its log carries a plaintext preimage,
\* and no preimage is kept in the mapping store.
C27_PreimageNeverLogged ==
  /\ \A i \in 1..Len(console) :
       \A j \in 1..Len(console[i].args) : console[i].args[j] \notin Preimages
  /\ Keys(file) \cap Preimages = {}
  /\ Keys(relayerMappings) \cap Preimages = {}

\* ---------------------------------------------------------------- C28
\* the mutating routes of the relayer
MutatingRoutes ==
  {"/start-listen", "/submit-secret", "/solana/initiate-htlc",
   "/solana/complete-htlc", "/mappings/:id"}

\* C28: with RELAYER_API_KEY configured, every request to a mutating route
\* that does not carry the configured key is refused (it is not answered
\* 200) and leaves the mapping store, the listener, its callbacks and both
\* ledgers as they were.
C28_MutationsNeedCredential ==
  [][(res'.route \in MutatingRoutes /\ res'.key # RELAYER_API_KEY) =>
        /\ res'.status # 200
        /\ UNCHANGED <<file, encrypted, relayerMappings, listening, handler,
                       evmCompleted, solanaCompleted>>]_vars


\* the routes registered with app.post
PostRoutes == MutatingRoutes \ {"/mappings/:id"}

\* C28 (amended): with RELAYER_API_KEY configured, every POST request that
\* does not carry the configured key is answered 401 and leaves the mapping
\* store, the listener, its callbacks and both ledgers as they were; the
\* DELETE route is not covered by the credential.
C28_PostNeedsCredential ==
  [][(res'.route \in PostRoutes /\ res'.key # RELAYER_API_KEY) =>
        /\ res'.status = 401
        /\ UNCHANGED <<file, encrypted, relayerMappings, listening, handler,
                       evmCompleted, solanaCompleted>>]_vars

\* a POST with a wrong key was refused while a mapping was there to act on
C28_Witness ==
  /\ res.route = "/solana/complete-htlc"
  /\ res.key = "other"
  /\ res.status = 401
  /\ file # <<>>
  /\ solanaCompleted = {}


\* ---------------------------------------------------------------- C29
\* C29: for every caller and every interval of one minute, at most RATE_LIMIT
\* of the caller's requests are admitted; a request beyond the ceiling is
\* answered 429 and does not reach its handler.
C29_SlidingWindowCeiling ==
  \A ip \in Ips : Len(Recent(admitted[ip], dateNow)) <= RATE_LIMIT


\* ---------------------------------------------------------------- C30
\* the reconciliation pass started first among those in progress resumes
\* from the ledger call it is suspended on
OldestPassResumes ==
  \E answered \in BOOLEAN :
    WorkerGetLogsAt(1, answered) \/ WorkerCompleteAt(1, answered)

\* C30: every handling of a completion notification and every
\* reconciliation pass eventually terminates, even when a ledger call never
\* responds: a callback that is suspended on a ledger call returns, and
\* while passes are in progress the oldest of them keeps resuming.
C30_LedgerCallsTimeOut ==
  /\ \A swapId \in SwapIds :
       (handler[swapId] # "idle") ~> (handler[swapId] = "idle")
  /\ <>[](passes # <<>>) => []<><<OldestPassResumes>>_vars


\* ---------------------------------------------------------------- C31
\* the connections of the dex, the input chain first
ToAsk(r) ==
  (IF r.inputChain \in Range(r.adapters) THEN <<r.inputChain>> ELSE <<>>)
    \o SelectSeq(r.adapters, LAMBDA c : c # r.inputChain)

\* C31: findBestRoute asks the input chain and every other connection once
\* each, ignores the connections whose quote call errors, and returns the
\* answer with the largest outputAmount, the first seen among equal ones;
\* it returns null when no connection answered.
C31_BestRoute ==
  routing.pc = "done" =>
    /\ routing.asked = ToAsk(routing)
    /\ (routing.best = <<>>) = (routing.seen = <<>>)
    /\ routing.best # <<>> =>
         \E i \in DOMAIN routing.seen :
           /\ routing.best[1] = routing.seen[i]
           /\ \A j \in DOMAIN routing.seen :
                /\ routing.seen[j].outputAmount <= routing.seen[i].outputAmount
                /\ routing.seen[j].outputAmount = routing.seen[i].outputAmount
                     => i <= j

\* three connections answered 100, 250 and 90 and the 250 entry was returned
C31_Witness ==
  /\ routing.pc = "done"
  /\ [i \in DOMAIN routing.seen |-> routing.seen[i].outputAmount]
       = <<100, 250, 90>>
  /\ routing.best = <<routing.seen[2]>>


\* ---------------------------------------------------------------- C32
\* lastPlayTime of a player is the time of the player's latest successful
\* play: a successful play records the block time, and nothing else writes
\* any field of a player but that player's own play or claim
LastPlayTimeIsLatestPlay ==
  /\ (last'.op = "playFizzCaps" /\ last'.ok) =>
       players'[last'.sender].lastPlayTime = now
  /\ \A u \in Users :
       players'[u] # players[u] =>
         /\ last'.ok
         /\ last'.sender = u
         /\ last'.op \in {"playFizzCaps", "claimRewards"}
         /\ last'.op = "claimRewards" =>
              players'[u].lastPlayTime = players[u].lastPlayTime

\* the player has played and the cooldown of that play is still running
CoolingDown(u) ==
  /\ players[u].score > 0
  /\ now < players[u].lastPlayTime + PLAY_COOLDOWN

\* C32 (as claimed): after a successful play at time t, every playFizzCaps
\* of the same player earlier than t + 60 fails with 'Cooldown active'.
C32_CooldownActive ==
  \A u \in Users, number \in Numbers :
    CoolingDown(u) =>
      playFizzCaps(World, u, now, number) = Revert(World, "Cooldown active")

\* C32 (amended): after a successful play at time t, every playFizzCaps of
\* the same player earlier than t + 60 fails and changes no state, with
\* 'Cooldown active' when the number is within 1..100 and with the range
\* error otherwise; the plays of the other players do not depend on it.
C32_CooldownBlocksPlay ==
  /\ [][LastPlayTimeIsLatestPlay]_vars
  /\ [][(last'.op = "playFizzCaps" /\ ~last'.ok) =>
          UNCHANGED <<balances, pools, atomicSwaps, players>>]_vars
  /\ [](\A u \in Users, number \in Numbers :
          /\ CoolingDown(u) =>
               playFizzCaps(World, u, now, number) =
                 Revert(World, IF number > 0 /\ number <= 100
                               THEN "Cooldown active"
                               ELSE "Number must be between 1 and 100")
          /\ \A v \in Users \ {u} :
               playFizzCaps(World, v, now, number).ok =
                 playFizzCaps([World EXCEPT !.players[u] = EmptyPlayer],
                              v, now, number).ok)

\* a play was refused during the cooldown of an earlier play, in a later
\* block
C32_Witness ==
  /\ last.op = "playFizzCaps"
  /\ ~last.ok
  /\ last.err = "Cooldown active"
  /\ \E u \in Users : CoolingDown(u) /\ now > players[u].lastPlayTime


\* ---------------------------------------------------------------- C33
\* a call made from inside the token transfer of another call
Reentered ==
  /\ reentrancy.status = "ENTERED"
  /\ reentrancy' = reentrancy
  /\ last'.op \in {"completeAtomicSwap", "refundAtomicSwap", "swap",
                   "addLiquidity", "removeLiquidity", "claimRewards"}

\* the swap a complete or refund in progress is paying out
PayingSwap == SwapAt(atomicSwaps, reentrancy.id)

\* C33: complete and refund set the terminal flag before the token transfer,
\* and a call to complete, refund, swap, addLiquidity, removeLiquidity or
\* claimRewards made from inside the token transfer of another such call
\* fails and changes nothing, so a swap is paid out once: when the call
\* returns, the contract has paid exactly the recorded amount.
C33_NonReentrant ==
  /\ [](reentrancy.status = "ENTERED" =>
          /\ reentrancy.op = "completeAtomicSwap" => PayingSwap.completed
          /\ reentrancy.op = "refundAtomicSwap" => PayingSwap.refunded)
  /\ [][Reentered =>
          /\ ~last'.ok
          /\ last'.err = "ReentrancyGuardReentrantCall"
          /\ UNCHANGED <<balances, pools, atomicSwaps, players>>]_vars
  /\ [][(reentrancy.op \in {"completeAtomicSwap", "refundAtomicSwap"}
          /\ reentrancy'.status = "NOT_ENTERED" /\ last'.ok) =>
          balances'[PayingSwap.token][DEX] =
            reentrancy.snapshot.bal[PayingSwap.token][DEX]
              - PayingSwap.amount]_vars

\* the participant's token called completeAtomicSwap again from inside the
\* payout of that swap, and was refused
C33_Witness ==
  /\ reentrancy.status = "ENTERED"
  /\ reentrancy.op = "completeAtomicSwap"
  /\ last.op = "completeAtomicSwap"
  /\ ~last.ok
  /\ last.err = "ReentrancyGuardReentrantCall"


\* ---------------------------------------------------------------- C34
RECURSIVE SumOf(_, _)
\* the sum of f over the finite set S
SumOf(f, S) ==
  IF S = {} THEN 0
  ELSE LET x == CHOOSE y \in S : TRUE IN f[x] + SumOf(f, S \ {x})

\* the reserve of the token in a pool (0 where the pool does not hold it)
ReserveIn(pool, token) ==
  (IF pool.tokenA = token THEN pool.reserveA ELSE 0)
    + (IF pool.tokenB = token THEN pool.reserveB ELSE 0)

\* what the contract owes in a token: the reserves of all pools and the
\* amounts of the swaps in state Created
Owed(token) ==
  SumOf([p \in PoolIds |-> ReserveIn(pools[p], token)], PoolIds)
    + SumOf([id \in DOMAIN atomicSwaps |->
               IF Created(atomicSwaps[id]) /\ atomicSwaps[id].token = token
               THEN atomicSwaps[id].amount ELSE 0],
            DOMAIN atomicSwaps)

\* C34: solvency - for every token, the contract's balance is at least the
\* sum of the token's reserves over all pools plus the amounts of all atomic
\* swaps in state Created in that token, the reward token included.
C34_Solvency ==
  \A token \in Tokens : balances[token][DEX] >= Owed(token)


C36_DeletedStaysDeleted ==
  [][\A id \in SwapIds :
       (id \notin Keys(file) /\ id \in Keys(file')) =>
         /\ res'.route = "/solana/initiate-htlc"
         /\ res'.status = 200
         /\ res'.id = id]_vars


\* ---------------------------------------------------------------- C37
\* C37: locked funds are never stuck - for every atomic swap in state
\* Created whose timelock has passed, refundAtomicSwap by the recorded
\* initiator goes through, moves the swap to Refunded and takes its recorded
\* amount out of escrow (so that an initiator who keeps calling refund
\* always gets every created swap out of Created).
C37_RefundEnabled ==
  \A id \in DOMAIN atomicSwaps :
    LET s == atomicSwaps[id]
        r == refundAtomicSwap(World, s.initiator, now, id)
    IN  (Created(s) /\ now > s.timelock) =>
          /\ r.ok
          /\ r.w.swaps[id].refunded
          /\ r.w.bal[s.token][DEX] = balances[s.token][DEX] - s.amount


(* ------------------------------------------------------------------ *)
(* C38: deposit and immediate withdrawal                               *)
(* ------------------------------------------------------------------ *)

\* What the DEX holds more of token after the call with outcome r than in
\* the current state: the amount the pool received in the deposit.
ReceivedIn(r, token) == r.w.bal[token][DEX] - balances[token][DEX]

\* The deposit of amountA FEE and amountB FIZZ by sender, followed at once
\* by the withdrawal of exactly the shares the deposit minted.
RoundTripLosesNothing(sender, amountA, amountB) ==
  LET poolId == getPoolId(FEE, FIZZ)
      before == pools[poolId]
      add    == addLiquidity(World, sender, FEE, FIZZ, amountA, amountB)
      remove == removeLiquidity(add.w, sender, FEE, FIZZ, add.ret)
      after  == remove.w.pools[poolId]
      token0 == add.w.pools[poolId].tokenA
      token1 == add.w.pools[poolId].tokenB
  IN  add.ok =>
        /\ remove.ok
        /\ remove.ret  <= ReceivedIn(add, token0)
        /\ remove.ret2 <= ReceivedIn(add, token1)
        /\ after.reserveA >= before.reserveA
        /\ after.reserveB >= before.reserveB

\* C38: in every reachable pool state and for every depositor, addLiquidity
\* followed immediately by removeLiquidity of exactly the shares just minted
\* returns, for each token, no more than the pool received in that deposit,
\* and leaves each reserve no smaller than it was before the deposit.
C38_RoundTripNeverProfits ==
  \A sender \in Users :
    \A amountA \in PoolAmounts(sender), amountB \in PoolAmounts(sender) :
      RoundTripLosesNothing(sender, amountA, amountB)

\* A pool that already has liquidity and has been traded in, where a deposit
\* mints shares and the withdrawal of those shares returns strictly less of
\* one token than the pool received: the rounding is in the pool's favour.
C38_Witness ==
  LET poolId == getPoolId(FEE, FIZZ)
  IN  /\ pools[poolId].totalShares > 0
      /\ last.op = "swap" /\ last.ok
      /\ \E sender \in Users :
           \E amountA \in PoolAmounts(sender), amountB \in PoolAmounts(sender) :
             LET add    == addLiquidity(World, sender, FEE, FIZZ, amountA, amountB)
                 remove == removeLiquidity(add.w, sender, FEE, FIZZ, add.ret)
             IN  /\ add.ok /\ remove.ok
                 /\ remove.ret2 < ReceivedIn(add, add.w.pools[poolId].tokenB)


(* ------------------------------------------------------------------ *)
(* EvmAdapter.getSwapQuote                                             *)
(* ------------------------------------------------------------------ *)

\* String.prototype.toLowerCase on character codes
toLowerCase(s) ==
  [i \in DOMAIN s |-> IF s[i] \in 65..90 THEN s[i] + 32 ELSE s[i]]

\* s < t of two JavaScript strings: code units compared left to right
RECURSIVE StringLess(_, _)
StringLess(s, t) ==
  IF t = <<>> THEN FALSE
  ELSE IF s = <<>> THEN TRUE
  ELSE IF Head(s) # Head(t) THEN Head(s) < Head(t)
  ELSE StringLess(Tail(s), Tail(t))

\* amountOut.toString(): the decimal digits of a bigint
RECURSIVE toString(_)
toString(n) ==
  IF n < 10 THEN <<n>> ELSE toString(n \div 10) \o <<n % 10>>

\* BigInt(amount) of a string of decimal digits
RECURSIVE BigInt(_)
BigInt(s) ==
  IF s = <<>> THEN 0
  ELSE BigInt(SubSeq(s, 1, Len(s) - 1)) * 10 + s[Len(s)]

\* The adapter's own getPoolId: the two addresses ordered as lower-case
\* strings, then packed and hashed; the packed pair stands for its hash.
AdapterPoolId(tokenA, tokenB) ==
  IF StringLess(toLowerCase(Text(tokenA)), toLowerCase(Text(tokenB)))
  THEN <<tokenA, tokenB>>
  ELSE <<tokenB, tokenA>>

getSwapQuote_FixedDirection(w, inputToken, outputToken, amount) ==
  LET poolId == AdapterPoolId(inputToken, outputToken)
      pool == w.pools[poolId]
      amountIn == BigInt(amount)
      amountInWithFee == amountIn * 997
      numerator == amountInWithFee * pool.reserveB
      denominator == pool.reserveA * 1000 + amountInWithFee
  IN  IF amountIn <= 0
      THEN [ok |-> FALSE, err |-> "Invalid amount", outputAmount |-> <<>>]
      ELSE [ok |-> TRUE, err |-> "",
            outputAmount |-> toString(numerator \div denominator)]

\* getSwapQuote of an adapter whose contract is set, on the pools of w
getSwapQuote(w, inputToken, outputToken, amount) ==
  LET poolId == AdapterPoolId(inputToken, outputToken)
      pool == w.pools[poolId]
      isTokenA == toLowerCase(Text(inputToken)) = toLowerCase(Text(pool.tokenA))
      reserveIn == IF isTokenA THEN pool.reserveA ELSE pool.reserveB
      reserveOut == IF isTokenA THEN pool.reserveB ELSE pool.reserveA
      amountIn == BigInt(amount)
      amountInWithFee == amountIn * 997
      numerator == amountInWithFee * reserveOut
      denominator == reserveIn * 1000 + amountInWithFee
  IN  IF amountIn <= 0
      THEN [ok |-> FALSE, err |-> "Invalid amount", outputAmount |-> <<>>]
      ELSE [ok |-> TRUE, err |-> "",
            outputAmount |-> toString(numerator \div denominator)]

\* The swap of amountIn by sender executes in the current state and the
\* pool receives the whole nominal amount.
FullDelivery(sender, tokenIn, tokenOut, amountIn) ==
  LET r == swap(World, sender, tokenIn, tokenOut, amountIn, 0)
  IN  r.ok /\ r.ret2 = amountIn

\* C39: when the input token delivers the full nominal amount, the
\* outputAmount that EvmAdapter.getSwapQuote computes from the pool's
\* current reserves equals the amountOut that swap(inputToken, outputToken,
\* amount, 0) returns when executed on the same reserves, for every
\* amount > 0 and in either swap direction.
C39_QuoteEqualsSwap ==
  \A sender \in Users, pair \in TokenPairs :
    \A amountIn \in PoolAmounts(sender) :
      FullDelivery(sender, pair[1], pair[2], amountIn) =>
        LET r == swap(World, sender, pair[1], pair[2], amountIn, 0)
            q == getSwapQuote(World, pair[1], pair[2], toString(amountIn))
        IN  q.ok /\ q.outputAmount = toString(r.ret)

\* A pool whose reserves a trade has made unequal, in which a swap with
\* full delivery and a positive output can be executed in each direction.
C39_Witness ==
  /\ last.op = "swap" /\ last.ok
  /\ pools[getPoolId(FEE, FIZZ)].reserveA # pools[getPoolId(FEE, FIZZ)].reserveB
  /\ \A pair \in TokenPairs :
       \E sender \in Users :
         \E amountIn \in PoolAmounts(sender) :
           /\ FullDelivery(sender, pair[1], pair[2], amountIn)
           /\ swap(World, sender, pair[1], pair[2], amountIn, 0).ret > 0


(* ------------------------------------------------------------------ *)
(* Several pools and several atomic swaps side by side                 *)
(* ------------------------------------------------------------------ *)

FrameTokens == Tokens \cup {TokenC}
FramePoolIds == {getPoolId(a, b) : a \in FrameTokens, b \in FrameTokens}
FramePairs == {<<a, b>> \in FrameTokens \X FrameTokens : a # b}
\* atomic swaps that may be open side by side
FrameSwaps == 2

\* The contract right after its constructor, with three tokens that both
\* users hold.
InitFrame ==
  /\ balances = [t \in FrameTokens |->
                   [h \in Holders |-> IF h \in Users THEN InitialBalance ELSE 0]]
  /\ pools = [p \in FramePoolIds |-> EmptyPool]
  /\ atomicSwaps = [k \in {} |-> EmptySwap]
  /\ players = [u \in Users |-> EmptyPlayer]
  /\ now = Genesis
  /\ calls = 0
  /\ last = NoCall
  /\ reentrancy = NotEntered
  /\ quote = NoQuote
  /\ feeBasisPoints = LargestFeeBasisPoints
  /\ RelayerStarted(FALSE)

FrameAddLiquidity ==
  /\ \E sender \in Users, pair \in FramePairs, amountA \in {0, DepositB} :
      Commit("addLiquidity", sender,
             addLiquidity(World, sender, pair[1], pair[2], amountA, DepositB),
             NoId, pair[1], amountA, 0)

FrameRemoveLiquidity ==
  /\ \E sender \in Users, pair \in FramePairs, shares \in ShareAmounts :
      Commit("removeLiquidity", sender,
             removeLiquidity(World, sender, pair[1], pair[2], shares),
             NoId, pair[1], shares, 0)

FrameSwap ==
  /\ \E sender \in Users, pair \in FramePairs, amountIn \in {0, 5} :
      Commit("swap", sender,
             swap(World, sender, pair[1], pair[2], amountIn, 0),
             NoId, pair[1], amountIn, 0)

FrameInitiateAtomicSwap ==
  \E sender \in Users, token \in FrameTokens, amount \in {0, 5},
     secretHash \in Hashes, timelock \in Timelocks :
    \E participant \in Users \ {sender} :
      LET r == initiateAtomicSwap(World, sender, now, participant, token,
                                  amount, secretHash, timelock)
      IN /\ Cardinality(DOMAIN r.w.swaps) <= FrameSwaps
         /\ Commit("initiateAtomicSwap", sender, r, NoId, token, amount, 0)

NextFrame ==
  \/ Tick
  \/ FrameAddLiquidity
  \/ FrameRemoveLiquidity
  \/ FrameSwap
  \/ FrameInitiateAtomicSwap
  \/ CompleteAtomicSwap
  \/ RefundAtomicSwap

SpecFrame == InitFrame /\ [][NextFrame]_vars

PoolOps == {"addLiquidity", "removeLiquidity", "swap"}
AtomicSwapOps ==
  {"initiateAtomicSwap", "completeAtomicSwap", "refundAtomicSwap"}

\* C40: every pool or atomic-swap operation, successful or failed, changes
\* only the entity it addresses: addLiquidity, removeLiquidity or swap on one
\* pool id leaves the reserves, totalShares and share balances of every other
\* pool unchanged, and initiate, complete or refund on one swap id leaves the
\* record of every other swap id unchanged.  The receipt of a successful call
\* names the entity addressed; a failed call changes no entity at all.
C40_OnlyAddressedEntity ==
  [][/\ last'.op \in PoolOps =>
          \A p \in DOMAIN pools :
            (~last'.ok \/ p # last'.id) => pools'[p] = pools[p]
     /\ last'.op \in AtomicSwapOps =>
          \A id \in DOMAIN atomicSwaps :
            (~last'.ok \/ id # last'.id) =>
              /\ id \in DOMAIN atomicSwaps'
              /\ atomicSwaps'[id] = atomicSwaps[id]]_vars

\* A swap was settled while another swap record was still open, and
\* liquidity sits in a pool: the operation had another entity to disturb.
C40_Witness ==
  /\ last.op = "completeAtomicSwap" /\ last.ok
  /\ \E id \in DOMAIN atomicSwaps : id # last.id /\ Created(atomicSwaps[id])


\* A trade was made in one pool while another pool held liquidity.
C40_PoolCase ==
  /\ last.op = "swap" /\ last.ok
  /\ \E p \in DOMAIN pools : p # last.id /\ pools[p].totalShares > 0

====
